---- MODULE Spec2Model ----
(***************************************************************************)
(* Model of the Ramayana tagging engine.                                   *)
(*                                                                         *)
(* Text is a sequence of one-character strings; offsets are Python         *)
(* (0-based) indices into it.                                              *)
(*                                                                         *)
(*   SpecClassifier  Tag._process_tag_content on every bounded raw name    *)
(*   SpecTag         Tag.add_start_position / add_end_position /           *)
(*                   create_pairs on arbitrary offset lists                *)
(*   Spec            AdhyayaTags.__init__ on every bounded document:       *)
(*                   _find_tags, _match_tags, _identify_errors             *)
(***************************************************************************)
EXTENDS Integers, Sequences, FiniteSets, TLC

VARIABLES
    \* models/tag.py, one Tag whose name is being classified
    name, main_topics, subject_info, tpc,
    \* models/tag.py, one Tag whose offsets are being accumulated and paired
    start_positions, end_positions, pairs, ppc,
    \* models/adhyaya.py, one AdhyayaTags under construction
    content, tags, opening_errors, closing_errors, pc,
    \* the corpus directory (config.BASE_DIR) read by the indexer
    corpus,
    \* database/mongodb.py, the four collections of the store
    db_tags, db_adhyayas, db_khandas, db_statistics,
    \* services/indexer.py, the reindex background tasks and their log
    runs, error_log,
    \* upsert_tag calls not yet applied (merge order study)
    pending,
    \* routes/content.py and routes/search.py, the outcome of the last request
    response,
    \* database/mongodb.py, Database._instance, the Database objects created,
    \* the coroutines inside get_instance, and the collections and indices of
    \* the MongoDB database
    instance, instances, callers, db_collections, db_indices

classifierVars == <<name, main_topics, subject_info, tpc>>
tagVars == <<start_positions, end_positions, pairs, ppc>>
adhyayaVars == <<content, tags, opening_errors, closing_errors, pc>>
storeVars == <<db_tags, db_adhyayas, db_khandas, db_statistics>>
indexerVars == <<corpus, storeVars, runs, error_log, pending>>
routeVars == <<response>>
singletonVars == <<instance, instances, callers, db_collections, db_indices>>
serviceVars == <<routeVars, singletonVars>>
vars == <<classifierVars, tagVars, adhyayaVars, indexerVars, serviceVars>>

----------------------------------------------------------------------------
(* Bounds *)

MaxNameLen == 7
MaxPos == 2
MaxOffsets == 3
MaxPieces == 4

----------------------------------------------------------------------------
(* Characters and strings *)

SP == " "
TAB == "\t"
\* str.strip() with no argument removes every whitespace character; TAB
\* stands for all whitespace other than the space character.
Whitespace == {SP, TAB}

Min(a, b) == IF a <= b THEN a ELSE b

\* s[i:j] for 0 <= i, j
Slice(s, i, j) == SubSeq(s, i + 1, j)

\* s[i]
At(s, i) == s[i + 1]

\* c in s
Contains(s, c) == \E i \in 1..Len(s) : s[i] = c

RECURSIVE LStrip(_)
LStrip(s) ==
    IF s = <<>> THEN s
    ELSE IF Head(s) \in Whitespace THEN LStrip(Tail(s)) ELSE s

RECURSIVE RStrip(_)
RStrip(s) ==
    IF s = <<>> THEN s
    ELSE IF s[Len(s)] \in Whitespace THEN RStrip(SubSeq(s, 1, Len(s) - 1)) ELSE s

\* str.strip()
Strip(s) == RStrip(LStrip(s))

\* str.split(sep): always at least one part, empty parts kept
RECURSIVE Split(_, _)
Split(s, sep) ==
    IF ~Contains(s, sep) THEN <<s>>
    ELSE LET i == CHOOSE k \in 1..Len(s) :
                      s[k] = sep /\ \A j \in 1..(k - 1) : s[j] # sep
         IN  <<SubSeq(s, 1, i - 1)>> \o Split(SubSeq(s, i + 1, Len(s)), sep)

\* [f(x) for x in s]
RECURSIVE StripAll(_)
StripAll(s) == IF s = <<>> THEN <<>> ELSE <<Strip(Head(s))>> \o StripAll(Tail(s))

NonEmpty(s) == s # <<>>

----------------------------------------------------------------------------
(* Tag._process_tag_content *)

\* parts = [part.strip() for part in name.split(";") if part.strip()]
Parts(n) == SelectSeq(StripAll(Split(n, ";")), NonEmpty)

\* Mutant: any whitespace character counts, not only the space
HasAnyWhitespace(part) == \E c \in Whitespace : Contains(part, c)

\* Mutant: the test is inverted
HasNoSpace(part) == ~Contains(part, SP)

\* " " in part
HasSpace(part) == Contains(part, SP)

NoSpace(part) == ~HasSpace(part)

\* Lines 26-43: result of the categorisation, and whether the method has
\* returned before reaching the adjustment of lines 48-49.
Categorize(n) ==
    IF n = <<>> THEN [main |-> <<>>, subject |-> <<>>, returned |-> TRUE]
    ELSE LET parts == Parts(n)
         IN  IF Len(parts) = 1
             THEN [main |-> <<parts[1]>>, subject |-> <<>>, returned |-> TRUE]
             ELSE [main |-> SelectSeq(parts, NoSpace),
                   subject |-> SelectSeq(parts, HasSpace),
                   returned |-> FALSE]

\* Mutant: the last topic is copied and not popped
DemoteNoPop(main, subject) ==
    IF Len(main) > 1 /\ subject = <<>>
    THEN [main |-> main, subject |-> <<main[Len(main)]>>]
    ELSE [main |-> main, subject |-> subject]

\* Mutant: pop(0), the first topic is moved
DemoteFirst(main, subject) ==
    IF Len(main) > 1 /\ subject = <<>>
    THEN [main |-> Tail(main), subject |-> <<main[1]>>]
    ELSE [main |-> main, subject |-> subject]

\* Lines 48-49
Demote(main, subject) ==
    IF Len(main) > 1 /\ subject = <<>>
    THEN [main |-> SubSeq(main, 1, Len(main) - 1), subject |-> <<main[Len(main)]>>]
    ELSE [main |-> main, subject |-> subject]

\* The whole method
ProcessTagContent(n) ==
    LET c == Categorize(n)
    IN  IF c.returned THEN [main |-> c.main, subject |-> c.subject]
        ELSE Demote(c.main, c.subject)

----------------------------------------------------------------------------
(* Tag.create_pairs *)

\* Insert x into the ascending sequence s
RECURSIVE Insert(_, _)
Insert(x, s) ==
    IF s = <<>> THEN <<x>>
    ELSE IF x <= Head(s) THEN <<x>> \o s
    ELSE <<Head(s)>> \o Insert(x, Tail(s))

\* sorted(s)
RECURSIVE Sorted(_)
Sorted(s) == IF s = <<>> THEN <<>> ELSE Insert(Head(s), Sorted(Tail(s)))

\* Mutant: the start offsets are zipped with the end offsets in descending order
CreatePairsEndsDescending(starts, ends) ==
    LET start_sorted == Sorted(starts)
        end_sorted == Sorted(ends)
        pair_count == Min(Len(start_sorted), Len(end_sorted))
    IN  [i \in 1..pair_count |-> <<start_sorted[i], end_sorted[Len(end_sorted) + 1 - i]>>]

\* Mutant: the offsets are zipped in the order they were accumulated
CreatePairsUnsorted(starts, ends) ==
    [i \in 1..Min(Len(starts), Len(ends)) |-> <<starts[i], ends[i]>>]

\* Mutant: the largest start offsets are zipped with the end offsets
CreatePairsTrailingStarts(starts, ends) ==
    LET start_sorted == Sorted(starts)
        end_sorted == Sorted(ends)
        pair_count == Min(Len(start_sorted), Len(end_sorted))
        skipped == Len(start_sorted) - pair_count
    IN  [i \in 1..pair_count |-> <<start_sorted[skipped + i], end_sorted[i]>>]

\* Mutant: range(pair_count - 1), the last pair is lost
CreatePairsDropLast(starts, ends) ==
    LET start_sorted == Sorted(starts)
        end_sorted == Sorted(ends)
        pair_count == Min(Len(start_sorted), Len(end_sorted))
    IN  [i \in 1..(pair_count - 1) |-> <<start_sorted[i], end_sorted[i]>>]

\* Lines 62-67
CreatePairs(starts, ends) ==
    LET start_sorted == Sorted(starts)
        end_sorted == Sorted(ends)
        pair_count == Min(Len(start_sorted), Len(end_sorted))
    IN  [i \in 1..pair_count |-> <<start_sorted[i], end_sorted[i]>>]

\* Tag(name, start_position): the object after __init__
NewTag(n, starts) ==
    LET c == ProcessTagContent(n)
    IN  [name |-> n, start_positions |-> starts, end_positions |-> <<>>,
         pairs |-> <<>>, main_topics |-> c.main, subject_info |-> c.subject]

----------------------------------------------------------------------------
(* AdhyayaTags._find_tags: the two regular expressions *)

\* Index of the first ">" at or after index from, or -1
FirstGt(s, from) ==
    IF \E j \in from..(Len(s) - 1) : At(s, j) = ">"
    THEN CHOOSE j \in from..(Len(s) - 1) :
             At(s, j) = ">" /\ \A k \in from..(j - 1) : At(s, k) # ">"
    ELSE -1

\* First character class of the opening pattern, [^/]
OpeningFirstChar(c) == c # "/"

\* r"<([^/][^>]*)>" matches at index i: "<", one character that is not "/",
\* then the longest run of characters that are not ">", then ">".
OpeningMatchesAt(s, i) ==
    /\ i + 1 < Len(s)
    /\ At(s, i) = "<"
    /\ OpeningFirstChar(At(s, i + 1))
    /\ FirstGt(s, i + 2) # -1

\* r"</([^>]*)>" matches at index i
ClosingMatchesAt(s, i) ==
    /\ i + 1 < Len(s)
    /\ At(s, i) = "<"
    /\ At(s, i + 1) = "/"
    /\ FirstGt(s, i + 2) # -1

\* re.finditer(opening_pattern, s): leftmost, non-overlapping matches from pos
RECURSIVE OpeningFrom(_, _)
OpeningFrom(s, pos) ==
    IF pos >= Len(s) THEN <<>>
    ELSE IF OpeningMatchesAt(s, pos)
         THEN LET j == FirstGt(s, pos + 2)
              IN  <<[group |-> Slice(s, pos + 1, j), start |-> pos, end |-> j + 1]>>
                  \o OpeningFrom(s, j + 1)
         ELSE OpeningFrom(s, pos + 1)

\* re.finditer(closing_pattern, s)
RECURSIVE ClosingFrom(_, _)
ClosingFrom(s, pos) ==
    IF pos >= Len(s) THEN <<>>
    ELSE IF ClosingMatchesAt(s, pos)
         THEN LET j == FirstGt(s, pos + 2)
              IN  <<[group |-> Slice(s, pos + 2, j), start |-> pos, end |-> j + 1]>>
                  \o ClosingFrom(s, j + 1)
         ELSE ClosingFrom(s, pos + 1)

OpeningMatches(s) == OpeningFrom(s, 0)
ClosingMatches(s) == ClosingFrom(s, 0)

\* Mutant: the name is not stripped
TagNameVerbatim(group) == group

\* tag_name = match.group(1).strip()
TagName(group) == Strip(group)

----------------------------------------------------------------------------
(* AdhyayaTags *)

\* _find_tag_by_name: index of the first tag with that name, 0 for None
FindTagByName(ts, n) ==
    IF \E i \in 1..Len(ts) : ts[i].name = n
    THEN CHOOSE i \in 1..Len(ts) :
             ts[i].name = n /\ \A k \in 1..(i - 1) : ts[k].name # n
    ELSE 0

\* Body of the first loop of _find_tags, lines 52-61
AddOpening(ts, m) ==
    LET tag_name == TagName(m.group)
        start_position == m.end
        i == FindTagByName(ts, tag_name)
    IN  IF i = 0
        THEN Append(ts, NewTag(tag_name, <<start_position>>))
        ELSE [ts EXCEPT ![i].start_positions = Append(@, start_position)]

\* Mutant: the closing offset is match.end()
AddClosingAtEnd(ts, m) ==
    LET tag_name == TagName(m.group)
        end_position == m.end
        i == FindTagByName(ts, tag_name)
    IN  IF i = 0
        THEN Append(ts, [NewTag(tag_name, <<>>) EXCEPT
                             !.end_positions = <<end_position>>])
        ELSE [ts EXCEPT ![i].end_positions = Append(@, end_position)]

\* Body of the second loop of _find_tags, lines 66-75
AddClosing(ts, m) ==
    LET tag_name == TagName(m.group)
        end_position == m.start
        i == FindTagByName(ts, tag_name)
    IN  IF i = 0
        THEN Append(ts, [NewTag(tag_name, <<>>) EXCEPT
                             !.end_positions = <<end_position>>])
        ELSE [ts EXCEPT ![i].end_positions = Append(@, end_position)]

RECURSIVE AddOpenings(_, _)
AddOpenings(ts, ms) ==
    IF ms = <<>> THEN ts ELSE AddOpenings(AddOpening(ts, Head(ms)), Tail(ms))

RECURSIVE AddClosings(_, _)
AddClosings(ts, ms) ==
    IF ms = <<>> THEN ts ELSE AddClosings(AddClosing(ts, Head(ms)), Tail(ms))

\* _find_tags, starting from self.tags = []
FindTags(s) == AddClosings(AddOpenings(<<>>, OpeningMatches(s)), ClosingMatches(s))

\* _match_tags
MatchTags(ts) ==
    [i \in 1..Len(ts) |->
        [ts[i] EXCEPT !.pairs = CreatePairs(ts[i].start_positions, ts[i].end_positions)]]

\* Mutant: >= for >
IsOpeningErrorOrEqual(t) == Len(t.start_positions) >= Len(t.end_positions)

IsOpeningError(t) == Len(t.start_positions) > Len(t.end_positions)
IsClosingError(t) == Len(t.start_positions) < Len(t.end_positions)

RECURSIVE TagNames(_)
TagNames(ts) == IF ts = <<>> THEN <<>> ELSE <<Head(ts).name>> \o TagNames(Tail(ts))

\* _identify_errors
OpeningErrors(ts) == TagNames(SelectSeq(ts, IsOpeningError))
ClosingErrors(ts) == TagNames(SelectSeq(ts, IsClosingError))

\* x in list
InList(x, l) == \E i \in 1..Len(l) : l[i] = x

\* Mutant: a Tag counts only from its second pair on
GetValidTagCountTwoPairs(ts, oe, ce) ==
    Cardinality({i \in 1..Len(ts) :
        /\ ~InList(ts[i].name, oe)
        /\ ~InList(ts[i].name, ce)
        /\ Len(ts[i].pairs) > 1})

\* get_valid_tag_count
GetValidTagCount(ts, oe, ce) ==
    Cardinality({i \in 1..Len(ts) :
        /\ ~InList(ts[i].name, oe)
        /\ ~InList(ts[i].name, ce)
        /\ ts[i].pairs # <<>>})

\* routes/content.py get_tag_in_adhyaya: "match_text": content[start:end]
MatchText(c, pair) == Slice(c, pair[1], pair[2])

----------------------------------------------------------------------------
(* Inputs *)

SeqsUpTo(S, n) == UNION {[1..k -> S] : k \in 0..n}

\* Characters of raw tag names
NameChars == {"a", SP, TAB, ";"}
Names == SeqsUpTo(NameChars, MaxNameLen)

\* Offsets a Tag is given
Positions == 0..MaxPos

\* Documents are built from single characters and whole markers, so that
\* every string of at most MaxPieces characters is a document, and so are
\* texts holding up to MaxPieces markers.
Pieces ==
    { <<"<">>, <<">">>, <<"/">>, <<"a">>, <<SP>>,
      <<"<", "a", ">">>, <<"<", "/", "a", ">">>, <<"<", "a", SP, ">">>,
      <<"<", "b", ">">>, <<"<", "/", "b", ">">> }

RECURSIVE Concat(_)
Concat(ps) == IF ps = <<>> THEN <<>> ELSE Head(ps) \o Concat(Tail(ps))

Documents == {Concat(ps) : ps \in SeqsUpTo(Pieces, MaxPieces)}

----------------------------------------------------------------------------
(* Parts of the state a specification does not use *)

ClassifierIdle ==
    /\ name = <<>>
    /\ main_topics = <<>>
    /\ subject_info = <<>>
    /\ tpc = "idle"

TagIdle ==
    /\ start_positions = <<>>
    /\ end_positions = <<>>
    /\ pairs = <<>>
    /\ ppc = "idle"

AdhyayaIdle ==
    /\ content = <<>>
    /\ tags = <<>>
    /\ opening_errors = <<>>
    /\ closing_errors = <<>>
    /\ pc = "idle"

IndexerIdle ==
    /\ corpus = {}
    /\ db_tags = {}
    /\ db_adhyayas = {}
    /\ db_khandas = {}
    /\ db_statistics = {}
    /\ runs = <<>>
    /\ error_log = {}
    /\ pending = {}

\* No request was made; the store handle is not modelled
ServiceIdle ==
    /\ response = [op |-> "none"]
    /\ instance = 0
    /\ instances = <<>>
    /\ callers = <<>>
    /\ db_collections = {}
    /\ db_indices = {}

----------------------------------------------------------------------------
(* SpecClassifier: Tag.__init__ running _process_tag_content *)

\* Tag.__init__ lines 12-19, before the call of line 22
InitClassifier ==
    /\ name \in Names
    /\ main_topics = <<>>
    /\ subject_info = <<>>
    /\ tpc = "init"
    /\ TagIdle
    /\ AdhyayaIdle
    /\ IndexerIdle
    /\ ServiceIdle

\* _process_tag_content lines 26-43
DoCategorize ==
    /\ tpc = "init"
    /\ LET c == Categorize(name)
       IN  /\ main_topics' = c.main
           /\ subject_info' = c.subject
           /\ tpc' = IF c.returned THEN "done" ELSE "categorized"
    /\ UNCHANGED <<name, tagVars, adhyayaVars, indexerVars, serviceVars>>

\* _process_tag_content lines 48-49
DoDemote ==
    /\ tpc = "categorized"
    /\ LET d == Demote(main_topics, subject_info)
       IN  /\ main_topics' = d.main
           /\ subject_info' = d.subject
    /\ tpc' = "done"
    /\ UNCHANGED <<name, tagVars, adhyayaVars, indexerVars, serviceVars>>

NextClassifier == DoCategorize \/ DoDemote

SpecClassifier == InitClassifier /\ [][NextClassifier]_vars

----------------------------------------------------------------------------
(* SpecTag: offsets accumulated in any order, then paired *)

\* Tag.__init__ line 13-15: start_position given or None
InitTag ==
    /\ start_positions \in {<<>>} \cup {<<p>> : p \in Positions}
    /\ end_positions = <<>>
    /\ pairs = <<>>
    /\ ppc = "open"
    /\ ClassifierIdle
    /\ AdhyayaIdle
    /\ IndexerIdle
    /\ ServiceIdle

AddStartPosition(p) ==
    /\ ppc = "open"
    /\ Len(start_positions) < MaxOffsets
    /\ start_positions' = Append(start_positions, p)
    /\ UNCHANGED <<end_positions, pairs, ppc, classifierVars, adhyayaVars, indexerVars, serviceVars>>

AddEndPosition(p) ==
    /\ ppc = "open"
    /\ Len(end_positions) < MaxOffsets
    /\ end_positions' = Append(end_positions, p)
    /\ UNCHANGED <<start_positions, pairs, ppc, classifierVars, adhyayaVars, indexerVars, serviceVars>>

DoCreatePairs ==
    /\ ppc = "open"
    /\ pairs' = CreatePairs(start_positions, end_positions)
    /\ ppc' = "paired"
    /\ UNCHANGED <<start_positions, end_positions, classifierVars, adhyayaVars, indexerVars, serviceVars>>

NextTag ==
    \/ \E p \in Positions : AddStartPosition(p)
    \/ \E p \in Positions : AddEndPosition(p)
    \/ DoCreatePairs

SpecTag == InitTag /\ [][NextTag]_vars

----------------------------------------------------------------------------
(* Spec: AdhyayaTags.__init__ *)

\* Lines 19-33: content read, collections empty
Init ==
    /\ content \in Documents
    /\ tags = <<>>
    /\ opening_errors = <<>>
    /\ closing_errors = <<>>
    /\ pc = "read"
    /\ ClassifierIdle
    /\ TagIdle
    /\ IndexerIdle
    /\ ServiceIdle

\* Line 36
DoFindTags ==
    /\ pc = "read"
    /\ tags' = FindTags(content)
    /\ pc' = "found"
    /\ UNCHANGED <<content, opening_errors, closing_errors, classifierVars, tagVars, indexerVars, serviceVars>>

\* Line 37
DoMatchTags ==
    /\ pc = "found"
    /\ tags' = MatchTags(tags)
    /\ pc' = "matched"
    /\ UNCHANGED <<content, opening_errors, closing_errors, classifierVars, tagVars, indexerVars, serviceVars>>

\* Line 38
DoIdentifyErrors ==
    /\ pc = "matched"
    /\ opening_errors' = OpeningErrors(tags)
    /\ closing_errors' = ClosingErrors(tags)
    /\ pc' = "done"
    /\ UNCHANGED <<content, tags, classifierVars, tagVars, indexerVars, serviceVars>>

Next == DoFindTags \/ DoMatchTags \/ DoIdentifyErrors

Spec == Init /\ [][Next]_vars

----------------------------------------------------------------------------
(* The corpus directory as RamayanaIndexer.build_indices reads it *)

\* A corpus is the set of entries of base_dir:
\*   [name |-> file name, isdir |-> BOOLEAN, files |-> entries of the directory]
\* and a file entry is [name |-> file name, readable |-> BOOLEAN, text |-> content].

Digits == <<"0", "1", "2", "3", "4", "5", "6", "7", "8", "9">>

IsDigit(c) == \E d \in 1..10 : Digits[d] = c

DigitValue(c) == (CHOOSE d \in 1..10 : Digits[d] = c) - 1

\* Code point of a character of a file name
Ord(c) ==
    IF IsDigit(c) THEN 48 + DigitValue(c)
    ELSE CASE c = "." -> 46
           [] c = "_" -> 95
           [] c = "a" -> 97
           [] c = "b" -> 98
           [] c = "t" -> 116
           [] c = "x" -> 120
           [] OTHER -> 122

\* s < t for Python strings
RECURSIVE StrLess(_, _)
StrLess(s, t) ==
    IF t = <<>> THEN FALSE
    ELSE IF s = <<>> THEN TRUE
    ELSE IF Ord(Head(s)) # Ord(Head(t)) THEN Ord(Head(s)) < Ord(Head(t))
    ELSE StrLess(Tail(s), Tail(t))

\* str.isdigit()
IsDigits(s) == s # <<>> /\ \A i \in 1..Len(s) : IsDigit(s[i])

\* int(s) for a string of digits
RECURSIVE ToInt(_)
ToInt(s) ==
    IF s = <<>> THEN 0
    ELSE 10 * ToInt(SubSeq(s, 1, Len(s) - 1)) + DigitValue(s[Len(s)])

\* x < y in the order sorted() uses for the directory names: plain string order
DirLess(x, y) == StrLess(x, y)

\* sorted(names): names are distinct
RECURSIVE SortedDirs(_)
SortedDirs(S) ==
    IF S = {} THEN <<>>
    ELSE LET m == CHOOSE x \in S : \A y \in S : x = y \/ DirLess(x, y)
         IN  <<m>> \o SortedDirs(S \ {m})

\* Lines 74-80: khanda_dirs
KhandaDirs(c) == SortedDirs({e.name : e \in {x \in c : x.isdir}})

\* Number of leading digits of s
RECURSIVE DigitPrefixLen(_)
DigitPrefixLen(s) ==
    IF s = <<>> \/ ~IsDigit(Head(s)) THEN 0 ELSE 1 + DigitPrefixLen(Tail(s))

\* re.match(r"(\d+)_.*", khanda_dir)
KhandaMatch(d) ==
    LET n == DigitPrefixLen(d)
    IN  n >= 1 /\ n < Len(d) /\ d[n + 1] = "_"

\* int(khanda_match.group(1))
KhandaId(d) == ToInt(SubSeq(d, 1, DigitPrefixLen(d)))

\* khanda_dir.split("_", 1)[1]
KhandaName(d) == SubSeq(d, DigitPrefixLen(d) + 2, Len(d))

TxtSuffix == <<".", "t", "x", "t">>

\* f.endswith(".txt") and f[:-4].isdigit()
IsAdhyayaFile(f) ==
    /\ Len(f) >= 4
    /\ SubSeq(f, Len(f) - 3, Len(f)) = TxtSuffix
    /\ IsDigits(SubSeq(f, 1, Len(f) - 4))

\* int(f[:-4])
AdhyayaId(f) == ToInt(SubSeq(f, 1, Len(f) - 4))

\* x before y under key=lambda x: int(x[:-4])
FileLess(x, y) == AdhyayaId(x) < AdhyayaId(y)

\* sorted(files, key=...): the corpora hold no two files with the same key
RECURSIVE SortedFiles(_)
SortedFiles(S) ==
    IF S = {} THEN <<>>
    ELSE LET m == CHOOSE x \in S : \A y \in S : x = y \/ FileLess(x, y)
         IN  <<m>> \o SortedFiles(S \ {m})

DirEntry(c, d) == CHOOSE e \in c : e.name = d /\ e.isdir

\* Lines 101-108: adhyaya_files of a khanda directory
AdhyayaFiles(c, d) ==
    SortedFiles({f.name : f \in {x \in DirEntry(c, d).files : IsAdhyayaFile(x.name)}})

FileEntry(c, d, f) == CHOOSE e \in DirEntry(c, d).files : e.name = f

\* os.path.join(khanda_path, adhyaya_file), relative to base_dir
FilePath(d, f) == d \o <<"/">> \o f

\* AdhyayaTags(file_path, khanda_id, adhyaya_id) for a readable file
ParseAdhyaya(text) ==
    LET ts == MatchTags(FindTags(text))
    IN  [content |-> text, tags |-> ts,
         opening_errors |-> OpeningErrors(ts), closing_errors |-> ClosingErrors(ts)]

----------------------------------------------------------------------------
(* database/mongodb.py: the store operations *)

\* $addToSet {$each: items} on an array
RECURSIVE AddToSet(_, _)
AddToSet(arr, items) ==
    IF items = <<>> THEN arr
    ELSE AddToSet(IF InList(Head(items), arr) THEN arr ELSE Append(arr, Head(items)),
                  Tail(items))

\* Mutant: $set of the occurrences, the earlier ones are replaced
ReplaceOccurrences(arr, items) == AddToSet(<<>>, items)

\* The occurrences array after the update
MergeOccurrences(arr, items) == AddToSet(arr, items)

\* upsert_tag lines 119-130: update_one({"name": tag_name}, ..., upsert=True)
UpsertTag(coll, tag_name, mt, si, occurrences) ==
    IF occurrences = <<>> THEN coll
    ELSE IF \E e \in coll : e.name = tag_name
    THEN LET old == CHOOSE e \in coll : e.name = tag_name
         IN  (coll \ {old}) \cup
                 {[name |-> tag_name, main_topics |-> mt, subject_info |-> si,
                   occurrences |-> MergeOccurrences(old.occurrences, occurrences)]}
    ELSE coll \cup
             {[name |-> tag_name, main_topics |-> mt, subject_info |-> si,
               occurrences |-> MergeOccurrences(<<>>, occurrences)]}

\* insert_one raises DuplicateKeyError when the _id is taken
HasId(coll, id) == \E e \in coll : e.id = id

\* insert_adhyaya lines 85-92: _id is f"{khanda_id}_{adhyaya_id}"
AdhyayaRecord(khanda_id, adhyaya_id, path, doc) ==
    [id |-> <<khanda_id, adhyaya_id>>, khanda_id |-> khanda_id,
     adhyaya_id |-> adhyaya_id, file_path |-> path, content |-> doc.content,
     tags |-> doc.tags, opening_errors |-> doc.opening_errors,
     closing_errors |-> doc.closing_errors]

\* insert_khanda lines 101-103
KhandaRecord(khanda_id, khanda_name, adhyaya_ids) ==
    [id |-> khanda_id, name |-> khanda_name, adhyayas |-> adhyaya_ids]

----------------------------------------------------------------------------
(* services/indexer.py: one reindex background task *)

\* No adhyaya_tags: the run is not inside _process_adhyaya
NoDoc == [content |-> <<>>, tags |-> <<>>, opening_errors |-> <<>>, closing_errors |-> <<>>]

ZeroStats ==
    [khanda_count |-> 0, adhyaya_count |-> 0, valid_tag_count |-> 0,
     invalid_tag_count |-> 0, opening_error_count |-> 0, closing_error_count |-> 0]

\* RamayanaIndexer.__init__; pc is the store operation the task awaits next.
\* cleared, writes, processed and overlapped record what the task has done.
NewRun(at) ==
    [pc |-> at, khanda_dirs |-> <<>>, ki |-> 0, adhyaya_files |-> <<>>, ai |-> 0,
     doc |-> NoDoc, ti |-> 0, adhyaya_ids |-> <<>>, tag_count |-> 0,
     stats |-> ZeroStats, valid_tags |-> {},
     invalid_tags |-> [opening_errors |-> <<>>, closing_errors |-> <<>>],
     timestamp |-> 0, error |-> "", cleared |-> 0, writes |-> 0, processed |-> <<>>,
     overlapped |-> FALSE]

Active(r) == r.pc \notin {"idle", "complete", "failed"}

CurrentDir(r) == r.khanda_dirs[r.ki]
CurrentFile(r) == r.adhyaya_files[r.ai]
CurrentKhandaId(r) == KhandaId(CurrentDir(r))
CurrentAdhyayaId(r) == AdhyayaId(CurrentFile(r))
CurrentEntry(c, r) == FileEntry(c, CurrentDir(r), CurrentFile(r))

\* Mutant: an unreadable file is skipped with the rest of its khanda
EnterAdhyayaSkipUnreadable(c, r, ai) ==
    IF ai > Len(r.adhyaya_files)
    THEN [r EXCEPT !.pc = "insert_khanda", !.ai = ai]
    ELSE LET at == [r EXCEPT !.ai = ai]
         IN  IF ~CurrentEntry(c, at).readable
             THEN [at EXCEPT !.pc = "insert_khanda"]
             ELSE [at EXCEPT !.pc = "insert_adhyaya",
                             !.doc = ParseAdhyaya(CurrentEntry(c, at).text),
                             !.processed =
                                 Append(@, [khanda_id |-> CurrentKhandaId(at),
                                            adhyaya_id |-> CurrentAdhyayaId(at),
                                            dir |-> CurrentDir(at),
                                            file |-> CurrentFile(at)])]

\* Lines 115-125: the next adhyaya file of the khanda (read and parsed at
\* _process_adhyaya line 166), or insert_khanda
EnterAdhyaya(c, r, ai) ==
    IF ai > Len(r.adhyaya_files)
    THEN [r EXCEPT !.pc = "insert_khanda", !.ai = ai]
    ELSE LET at == [r EXCEPT !.ai = ai]
         IN  IF ~CurrentEntry(c, at).readable
             THEN [at EXCEPT !.pc = "failed", !.error = "unreadable"]
             ELSE [at EXCEPT !.pc = "insert_adhyaya",
                             !.doc = ParseAdhyaya(CurrentEntry(c, at).text),
                             !.processed =
                                 Append(@, [khanda_id |-> CurrentKhandaId(at),
                                            adhyaya_id |-> CurrentAdhyayaId(at),
                                            dir |-> CurrentDir(at),
                                            file |-> CurrentFile(at)])]

\* Lines 84-114: the next khanda directory with a valid name, or the statistics
RECURSIVE EnterKhanda(_, _, _)
EnterKhanda(c, r, ki) ==
    IF ki > Len(r.khanda_dirs)
    THEN [r EXCEPT !.pc = "delete_statistics", !.ki = ki]
    ELSE IF ~KhandaMatch(r.khanda_dirs[ki])
    THEN EnterKhanda(c, r, ki + 1)
    ELSE EnterAdhyaya(c,
             [r EXCEPT !.ki = ki, !.adhyaya_ids = <<>>,
                       !.adhyaya_files = AdhyayaFiles(c, r.khanda_dirs[ki])],
             1)

\* Mutant: every start offset of a Tag in error is reported
OpeningErrorEntriesAll(tag, khanda_id, adhyaya_id, path) ==
    [i \in 1..Len(tag.start_positions) |->
        [tag_name |-> tag.name, khanda_id |-> khanda_id, adhyaya_id |-> adhyaya_id,
         position |-> tag.start_positions[i], file_path |-> path]]

\* Lines 188-205: one entry per start offset that is the first element of no pair
OpeningErrorEntries(tag, khanda_id, adhyaya_id, path) ==
    LET Unmatched(pos) ==
            /\ Len(tag.end_positions) < Len(tag.start_positions)
            /\ \A k \in 1..Len(tag.pairs) : tag.pairs[k][1] # pos
        sel == SelectSeq(tag.start_positions, Unmatched)
    IN  [i \in 1..Len(sel) |->
            [tag_name |-> tag.name, khanda_id |-> khanda_id, adhyaya_id |-> adhyaya_id,
             position |-> sel[i], file_path |-> path]]

\* Lines 208-225
ClosingErrorEntries(tag, khanda_id, adhyaya_id, path) ==
    LET Unmatched(pos) ==
            /\ Len(tag.start_positions) < Len(tag.end_positions)
            /\ \A k \in 1..Len(tag.pairs) : tag.pairs[k][2] # pos
        sel == SelectSeq(tag.end_positions, Unmatched)
    IN  [i \in 1..Len(sel) |->
            [tag_name |-> tag.name, khanda_id |-> khanda_id, adhyaya_id |-> adhyaya_id,
             position |-> sel[i], file_path |-> path]]

\* Mutant: no tag is skipped as erroneous
HasNoError(tag, doc) == FALSE

\* Lines 185-228: has_error
HasError(tag, doc) ==
    InList(tag.name, doc.opening_errors) \/ InList(tag.name, doc.closing_errors)

\* Lines 235-244
Occurrences(tag, khanda_id, adhyaya_id) ==
    [i \in 1..Len(tag.pairs) |->
        [khanda_id |-> khanda_id, adhyaya_id |-> adhyaya_id,
         start |-> tag.pairs[i][1], end |-> tag.pairs[i][2]]]

\* Lines 126-130 after the tag loop of _process_adhyaya, lines 257-260
FinishAdhyaya(c, r) ==
    EnterAdhyaya(c,
        [r EXCEPT !.stats.valid_tag_count = @ + r.tag_count,
                  !.adhyaya_ids = Append(@, CurrentAdhyayaId(r)),
                  !.doc = NoDoc],
        r.ai + 1)

\* Lines 181-255: the tag loop from tag ti up to the next upsert_tag
RECURSIVE EnterTag(_, _, _)
EnterTag(c, r, ti) ==
    LET doc == r.doc
        khanda_id == CurrentKhandaId(r)
        adhyaya_id == CurrentAdhyayaId(r)
        path == FilePath(CurrentDir(r), CurrentFile(r))
    IN  IF ti > Len(doc.tags) THEN FinishAdhyaya(c, r)
        ELSE LET tag == doc.tags[ti]
                 oe == IF InList(tag.name, doc.opening_errors)
                       THEN OpeningErrorEntries(tag, khanda_id, adhyaya_id, path)
                       ELSE <<>>
                 ce == IF InList(tag.name, doc.closing_errors)
                       THEN ClosingErrorEntries(tag, khanda_id, adhyaya_id, path)
                       ELSE <<>>
                 r1 == [r EXCEPT
                           !.invalid_tags.opening_errors = @ \o oe,
                           !.invalid_tags.closing_errors = @ \o ce,
                           !.stats.opening_error_count = @ + Len(oe),
                           !.stats.closing_error_count = @ + Len(ce)]
                 r2 == [r1 EXCEPT !.valid_tags = @ \cup {tag.name},
                                  !.tag_count = @ + 1]
             IN  IF HasError(tag, doc) THEN EnterTag(c, r1, ti + 1)
                 ELSE IF Occurrences(tag, khanda_id, adhyaya_id) = <<>>
                 THEN EnterTag(c, r2, ti + 1)
                 ELSE [r2 EXCEPT !.pc = "upsert_tag", !.ti = ti]

\* Lines 138-143
StatisticsDoc(id, r) ==
    [run |-> id, valid_tags |-> r.valid_tags, invalid_tags |-> r.invalid_tags,
     count_stats |-> r.stats, timestamp |-> r.timestamp]

----------------------------------------------------------------------------
(* SpecIndexer: reindex requests against a corpus and a store *)

MaxRuns == 2

RunIds == 1..MaxRuns

Open(n) == <<"<">> \o n \o <<">">>
Close(n) == <<"<", "/">> \o n \o <<">">>
Txt(digits) == digits \o TxtSuffix

\* <a>x</a>: one valid Tag
TextValid == Open(<<"a">>) \o <<"x">> \o Close(<<"a">>)
\* <a>x</a><b>: a valid Tag and an opening error
TextOpenError == Open(<<"a">>) \o <<"x">> \o Close(<<"a">>) \o Open(<<"b">>)
\* </b><a><a>x</a></a>: a closing error and a Tag with two pairs
TextCloseError ==
    Close(<<"b">>) \o Open(<<"a">>) \o Open(<<"a">>) \o <<"x">>
        \o Close(<<"a">>) \o Close(<<"a">>)
\* <a;b>x</a;b>: a Tag with a main topic and a subject
TextTopics == Open(<<"a", ";", "b">>) \o <<"x">> \o Close(<<"a", ";", "b">>)

\* <a><a>x</a></b><b></b>: a has two starts and one end, b one start and
\* two ends
TextImbalanced ==
    Open(<<"a">>) \o Open(<<"a">>) \o <<"x">> \o Close(<<"a">>)
        \o Close(<<"b">>) \o Open(<<"b">>) \o Close(<<"b">>)

File(n, text) == [name |-> n, readable |-> TRUE, text |-> text]
Unreadable(n) == [name |-> n, readable |-> FALSE, text |-> <<>>]
Dir(n, files) == [name |-> n, isdir |-> TRUE, files |-> files]
Plain(n) == [name |-> n, isdir |-> FALSE, files |-> {}]

\* Unit and leaf ids of different digit lengths
CorpusDigits ==
    { Dir(<<"2", "_", "a">>, {File(Txt(<<"2">>), TextValid),
                              File(Txt(<<"1", "0">>), TextOpenError)}),
      Dir(<<"1", "0", "_", "b">>, {File(Txt(<<"1">>), TextCloseError)}) }

\* A file that cannot be read, with documents before and after it
CorpusUnreadable ==
    { Dir(<<"1", "_", "a">>, {File(Txt(<<"1">>), TextOpenError),
                              Unreadable(Txt(<<"2">>))}),
      Dir(<<"2", "_", "b">>, {File(Txt(<<"1">>), TextValid)}) }

\* Two directories with the same leading integer
CorpusSameId ==
    { Dir(<<"0", "1", "_", "b">>, {File(Txt(<<"1">>), TextTopics)}),
      Dir(<<"1", "_", "a">>, {File(Txt(<<"1">>), TextValid)}) }

\* Entries the indexer skips, and a khanda without adhyayas
CorpusSkipped ==
    { Dir(<<"x">>, {File(Txt(<<"1">>), TextValid)}),
      Plain(<<"3", "_", "b">>),
      Dir(<<"2", "_", "b">>, {}),
      Dir(<<"1", "_", "a">>, {File(Txt(<<"1">>), TextTopics),
                              File(Txt(<<"a">>), TextValid),
                              File(<<"2">>, TextValid)}) }

\* A document whose Tags have pairs and unmatched offsets
CorpusImbalanced ==
    { Dir(<<"1", "_", "a">>, {File(Txt(<<"1">>), TextImbalanced)}) }

Corpora ==
    {CorpusDigits, CorpusUnreadable, CorpusSameId, CorpusSkipped, CorpusImbalanced, {}}

\* What an earlier indexing of another corpus left in the store
StaleTags ==
    {[name |-> <<"b">>, main_topics |-> << <<"b">> >>, subject_info |-> <<>>,
      occurrences |-> <<[khanda_id |-> 9, adhyaya_id |-> 9, start |-> 3, end |-> 4]>>]}
StaleAdhyayas ==
    {AdhyayaRecord(9, 9, <<"9", "_", "b", "/", "9", ".", "t", "x", "t">>,
                   ParseAdhyaya(Open(<<"b">>) \o <<"x">> \o Close(<<"b">>)))}
StaleKhandas == {KhandaRecord(9, <<"b">>, <<9>>)}
StaleStatistics ==
    {StatisticsDoc(0, [NewRun("complete") EXCEPT
                          !.valid_tags = {<<"b">>},
                          !.stats.khanda_count = 1,
                          !.stats.adhyaya_count = 1,
                          !.stats.valid_tag_count = 1])}

InitIndexer ==
    /\ corpus \in Corpora
    /\ \/ /\ db_tags = {}
          /\ db_adhyayas = {}
          /\ db_khandas = {}
          /\ db_statistics = {}
       \/ /\ db_tags = StaleTags
          /\ db_adhyayas = StaleAdhyayas
          /\ db_khandas = StaleKhandas
          /\ db_statistics = StaleStatistics
    /\ runs = [id \in RunIds |-> NewRun("idle")]
    /\ error_log = {}
    /\ pending = {}
    /\ ClassifierIdle
    /\ TagIdle
    /\ AdhyayaIdle
    /\ ServiceIdle

otherVars == <<classifierVars, tagVars, adhyayaVars, pending, serviceVars>>

\* build_indices line 142: "timestamp": datetime.now(), later than that of
\* every statistics document built before
Stamped(r) ==
    IF r.pc = "delete_statistics"
    THEN [r EXCEPT !.timestamp = 1 + Cardinality({q \in RunIds : runs[q].timestamp > 0})]
    ELSE r

\* reindex_corpus_task lines 49-61: the run moves on, or its exception is
\* caught and logged and nothing else is done
Continue(id, r) ==
    /\ runs' = [runs EXCEPT ![id] = Stamped(r)]
    /\ error_log' = IF r.pc = "failed"
                    THEN error_log \cup {[run |-> id, error |-> r.error]}
                    ELSE error_log

Failed(r, error) == [r EXCEPT !.pc = "failed", !.error = error]

\* POST /admin/reindex: reindex_corpus adds the background task, which runs
\* build_indices up to the first store operation it awaits
Request(id) ==
    /\ runs[id].pc = "idle"
    /\ \A q \in RunIds : q < id => runs[q].pc # "idle"
    /\ runs' = [q \in RunIds |->
                   IF q = id
                   THEN [NewRun("clear_tags") EXCEPT
                            !.overlapped = \E o \in RunIds : Active(runs[o])]
                   ELSE IF Active(runs[q]) THEN [runs[q] EXCEPT !.overlapped = TRUE]
                   ELSE runs[q]]
    /\ UNCHANGED <<corpus, storeVars, error_log, otherVars>>

\* Mutant: clear_collections without its first delete_many
SkipClearTags(id) ==
    /\ runs[id].pc = "clear_tags"
    /\ runs' = [runs EXCEPT ![id].pc = "clear_adhyayas", ![id].cleared = @ + 1]
    /\ UNCHANGED <<corpus, storeVars, error_log, otherVars>>

\* clear_collections line 79
ClearTags(id) ==
    /\ runs[id].pc = "clear_tags"
    /\ db_tags' = {}
    /\ runs' = [runs EXCEPT ![id].pc = "clear_adhyayas", ![id].cleared = @ + 1]
    /\ UNCHANGED <<corpus, db_adhyayas, db_khandas, db_statistics, error_log, otherVars>>

\* Mutant: clear_collections without its second delete_many
SkipClearAdhyayas(id) ==
    /\ runs[id].pc = "clear_adhyayas"
    /\ runs' = [runs EXCEPT ![id].pc = "clear_khandas"]
    /\ UNCHANGED <<corpus, storeVars, error_log, otherVars>>

\* clear_collections line 80
ClearAdhyayas(id) ==
    /\ runs[id].pc = "clear_adhyayas"
    /\ db_adhyayas' = {}
    /\ runs' = [runs EXCEPT ![id].pc = "clear_khandas", ![id].cleared = @ + 1]
    /\ UNCHANGED <<corpus, db_tags, db_khandas, db_statistics, error_log, otherVars>>

\* clear_collections line 81, then build_indices lines 55-114 and the parse of
\* the first adhyaya (_process_adhyaya lines 166-172)
ClearKhandas(id) ==
    /\ runs[id].pc = "clear_khandas"
    /\ db_khandas' = {}
    /\ Continue(id, EnterKhanda(corpus,
                                [runs[id] EXCEPT !.cleared = @ + 1,
                                                 !.khanda_dirs = KhandaDirs(corpus)],
                                1))
    /\ UNCHANGED <<corpus, db_tags, db_adhyayas, db_statistics, otherVars>>

\* Mutant: the tags are processed without the adhyaya record being inserted
SkipInsertAdhyaya(id) ==
    /\ runs[id].pc = "insert_adhyaya"
    /\ Continue(id, EnterTag(corpus,
                             [runs[id] EXCEPT !.stats.adhyaya_count = @ + 1,
                                              !.tag_count = 0,
                                              !.writes = @ + 1],
                             1))
    /\ UNCHANGED <<corpus, storeVars, otherVars>>

\* _process_adhyaya line 175, then lines 177-255 up to the first upsert_tag
InsertAdhyaya(id) ==
    /\ runs[id].pc = "insert_adhyaya"
    /\ LET r == runs[id]
           khanda_id == CurrentKhandaId(r)
           adhyaya_id == CurrentAdhyayaId(r)
           rec == AdhyayaRecord(khanda_id, adhyaya_id,
                                FilePath(CurrentDir(r), CurrentFile(r)), r.doc)
       IN  IF HasId(db_adhyayas, rec.id)
           THEN /\ Continue(id, Failed(r, "duplicate_key"))
                /\ UNCHANGED db_adhyayas
           ELSE /\ db_adhyayas' = db_adhyayas \cup {rec}
                /\ Continue(id, EnterTag(corpus,
                                         [r EXCEPT !.stats.adhyaya_count = @ + 1,
                                                   !.tag_count = 0,
                                                   !.writes = @ + 1],
                                         1))
    /\ UNCHANGED <<corpus, db_tags, db_khandas, db_statistics, otherVars>>

\* _process_adhyaya lines 250-255, then the tag loop up to the next upsert_tag
DoUpsertTag(id) ==
    /\ runs[id].pc = "upsert_tag"
    /\ LET r == runs[id]
           tag == r.doc.tags[r.ti]
       IN  /\ db_tags' = UpsertTag(db_tags, tag.name, tag.main_topics, tag.subject_info,
                                   Occurrences(tag, CurrentKhandaId(r),
                                               CurrentAdhyayaId(r)))
           /\ Continue(id, EnterTag(corpus, [r EXCEPT !.writes = @ + 1], r.ti + 1))
    /\ UNCHANGED <<corpus, db_adhyayas, db_khandas, db_statistics, otherVars>>

\* build_indices lines 128-130, then the next khanda
InsertKhanda(id) ==
    /\ runs[id].pc = "insert_khanda"
    /\ LET r == runs[id]
           rec == KhandaRecord(CurrentKhandaId(r), KhandaName(CurrentDir(r)),
                               r.adhyaya_ids)
       IN  IF HasId(db_khandas, rec.id)
           THEN /\ Continue(id, Failed(r, "duplicate_key"))
                /\ UNCHANGED db_khandas
           ELSE /\ db_khandas' = db_khandas \cup {rec}
                /\ Continue(id, EnterKhanda(corpus,
                                            [r EXCEPT !.stats.khanda_count = @ + 1,
                                                      !.writes = @ + 1],
                                            r.ki + 1))
    /\ UNCHANGED <<corpus, db_tags, db_adhyayas, db_statistics, otherVars>>

\* Mutant: insert_statistics without its delete_many
SkipDeleteStatistics(id) ==
    /\ runs[id].pc = "delete_statistics"
    /\ runs' = [runs EXCEPT ![id].pc = "insert_statistics"]
    /\ UNCHANGED <<corpus, storeVars, error_log, otherVars>>

\* insert_statistics line 137
DeleteStatistics(id) ==
    /\ runs[id].pc = "delete_statistics"
    /\ db_statistics' = {}
    /\ runs' = [runs EXCEPT ![id].pc = "insert_statistics"]
    /\ UNCHANGED <<corpus, db_tags, db_adhyayas, db_khandas, error_log, otherVars>>

\* get_latest_statistics line 145: find_one sorted by timestamp, descending
GetLatestStatistics ==
    IF db_statistics = {} THEN [run |-> -1]
    ELSE CHOOSE rec \in db_statistics :
             \A other \in db_statistics : other.timestamp <= rec.timestamp

\* GET /admin/indexing-status
GetIndexingStatus ==
    LET stats_doc == GetLatestStatistics
    IN  IF stats_doc.run = -1
        THEN [status |-> "not_indexed"]
        ELSE [status |-> "indexed",
              statistics |-> stats_doc.count_stats,
              valid_tag_count |-> Cardinality(stats_doc.valid_tags),
              invalid_tag_count |-> Len(stats_doc.invalid_tags.opening_errors)
                                      + Len(stats_doc.invalid_tags.closing_errors),
              opening_error_count |-> Len(stats_doc.invalid_tags.opening_errors),
              closing_error_count |-> Len(stats_doc.invalid_tags.closing_errors)]

\* insert_statistics line 138, then build_indices returns
InsertStatistics(id) ==
    /\ runs[id].pc = "insert_statistics"
    /\ db_statistics' = db_statistics \cup {StatisticsDoc(id, runs[id])}
    /\ runs' = [runs EXCEPT ![id].pc = "complete"]
    /\ UNCHANGED <<corpus, db_tags, db_adhyayas, db_khandas, error_log, otherVars>>

NextIndexer ==
    \E id \in RunIds :
        \/ Request(id)
        \/ ClearTags(id)
        \/ ClearAdhyayas(id)
        \/ ClearKhandas(id)
        \/ InsertAdhyaya(id)
        \/ DoUpsertTag(id)
        \/ InsertKhanda(id)
        \/ DeleteStatistics(id)
        \/ InsertStatistics(id)

SpecIndexer == InitIndexer /\ [][NextIndexer]_vars

----------------------------------------------------------------------------
(* SpecMerge: the upsert_tag calls of a set of documents, applied in any order *)

MaxDocs == 3

\* <a>x</a><a;b>y</a;b>: two valid Tags
TextTwoTags ==
    Open(<<"a">>) \o <<"x">> \o Close(<<"a">>)
        \o Open(<<"a", ";", "b">>) \o <<"y">> \o Close(<<"a", ";", "b">>)

MergeTexts == {TextValid, TextCloseError, TextTopics, TextTwoTags}

DigitOf(i) == Digits[i + 1]

\* One unit whose documents 1.txt .. MaxDocs.txt each hold one of the texts
MergeCorpora ==
    {{Dir(<<"1", "_", "a">>, {File(Txt(<<DigitOf(i)>>), t[i]) : i \in 1..MaxDocs})} :
        t \in [1..MaxDocs -> MergeTexts]}

\* _process_adhyaya lines 231-255: the upsert_tag calls made for one document
UpsertCallsOf(doc, khanda_id, adhyaya_id) ==
    {[tag_name |-> doc.tags[i].name,
      main_topics |-> doc.tags[i].main_topics,
      subject_info |-> doc.tags[i].subject_info,
      occurrences |-> Occurrences(doc.tags[i], khanda_id, adhyaya_id)] :
        i \in {i \in 1..Len(doc.tags) :
                  /\ ~HasError(doc.tags[i], doc)
                  /\ Occurrences(doc.tags[i], khanda_id, adhyaya_id) # <<>>}}

UpsertCalls(c) ==
    UNION {UNION {UpsertCallsOf(ParseAdhyaya(FileEntry(c, d, f).text),
                                KhandaId(d), AdhyayaId(f)) :
                     f \in {AdhyayaFiles(c, d)[i] : i \in 1..Len(AdhyayaFiles(c, d))}} :
              d \in {x \in {KhandaDirs(c)[i] : i \in 1..Len(KhandaDirs(c))} :
                        KhandaMatch(x)}}

Apply(coll, call) ==
    UpsertTag(coll, call.tag_name, call.main_topics, call.subject_info, call.occurrences)

InitMerge ==
    /\ corpus \in MergeCorpora
    /\ pending = UpsertCalls(corpus)
    /\ db_tags = {}
    /\ db_adhyayas = {}
    /\ db_khandas = {}
    /\ db_statistics = {}
    /\ runs = <<>>
    /\ error_log = {}
    /\ ClassifierIdle
    /\ TagIdle
    /\ AdhyayaIdle
    /\ ServiceIdle

\* upsert_tag lines 119-130, for any call not yet applied
ApplyUpsert(call) ==
    /\ call \in pending
    /\ db_tags' = Apply(db_tags, call)
    /\ pending' = pending \ {call}
    /\ UNCHANGED <<corpus, db_adhyayas, db_khandas, db_statistics, runs, error_log,
                   classifierVars, tagVars, adhyayaVars, serviceVars>>

NextMerge == \E call \in pending : ApplyUpsert(call)

SpecMerge == InitMerge /\ [][NextMerge]_vars

----------------------------------------------------------------------------
(* Vocabulary of the properties *)

Range(s) == {s[i] : i \in 1..Len(s)}

\* k-th smallest element of s (1 <= k <= Len(s)), without sorting
KthSmallest(s, k) ==
    CHOOSE v \in Range(s) :
        /\ Cardinality({j \in 1..Len(s) : s[j] < v}) < k
        /\ k <= Cardinality({j \in 1..Len(s) : s[j] <= v})

HasWhitespace(part) == \E c \in Whitespace : Contains(part, c)

\* sep.join(parts)
RECURSIVE Join(_, _)
Join(parts, sep) ==
    IF parts = <<>> THEN <<>>
    ELSE IF Len(parts) = 1 THEN parts[1]
    ELSE parts[1] \o <<sep>> \o Join(Tail(parts), sep)

Scanned == pc \in {"found", "matched", "done"}

\* Marker occurrences of the document, by trimmed raw name
FoundNames ==
    {Strip(m.group) : m \in Range(OpeningMatches(content)) \cup Range(ClosingMatches(content))}
StartOffsetsOf(n) == {m.end : m \in {x \in Range(OpeningMatches(content)) : Strip(x.group) = n}}
EndOffsetsOf(n) == {m.start : m \in {x \in Range(ClosingMatches(content)) : Strip(x.group) = n}}

TagsNamed(n) == {i \in 1..Len(tags) : tags[i].name = n}

NoDuplicates(l) == \A i, j \in 1..Len(l) : l[i] = l[j] => i = j

\* The contents of an opening and a closing marker differ only by one
\* trailing space
TrailingSpaceApart(g, h) == g = h \o <<SP>> \/ h = g \o <<SP>>

----------------------------------------------------------------------------
(* C1 *)

\* C1: after create_pairs, pairs is exactly the sequence whose i-th element
\* is (i-th smallest start offset, i-th smallest end offset) for
\* i <= min(#starts, #ends); so len(pairs) = min(len(starts), len(ends)).
C1_PositionalPairing ==
    ppc = "paired" =>
        /\ Len(pairs) = Min(Len(start_positions), Len(end_positions))
        /\ DOMAIN pairs = 1..Min(Len(start_positions), Len(end_positions))
        /\ \A i \in 1..Len(pairs) :
               pairs[i] = <<KthSmallest(start_positions, i), KthSmallest(end_positions, i)>>

\* Offsets accumulated out of order and in unequal numbers have been paired
C1_Witness ==
    /\ ppc = "paired"
    /\ Len(start_positions) = 3
    /\ Len(end_positions) = 2
    /\ start_positions[1] > start_positions[2]
    /\ end_positions[1] > end_positions[2]
    /\ Len(pairs) = 2

----------------------------------------------------------------------------
(* C2 *)

\* C2: a raw name with n opening and n closing markers in the document has
\* one Tag with exactly n pairs; every start offset is the first element of
\* exactly one pair and every end offset the second element of exactly one.
C2_BalancedNameFullyPaired ==
    pc = "done" =>
        \A n \in FoundNames :
            Cardinality(StartOffsetsOf(n)) = Cardinality(EndOffsetsOf(n)) =>
                /\ Cardinality(TagsNamed(n)) = 1
                /\ \A i \in TagsNamed(n) :
                    /\ Len(tags[i].pairs) = Cardinality(StartOffsetsOf(n))
                    /\ \A s \in StartOffsetsOf(n) :
                           Cardinality({k \in 1..Len(tags[i].pairs) :
                                            tags[i].pairs[k][1] = s}) = 1
                    /\ \A e \in EndOffsetsOf(n) :
                           Cardinality({k \in 1..Len(tags[i].pairs) :
                                            tags[i].pairs[k][2] = e}) = 1

\* A name with two opening and two closing markers has been matched
C2_Witness ==
    /\ pc = "done"
    /\ \E n \in FoundNames :
           /\ Cardinality(StartOffsetsOf(n)) = 2
           /\ Cardinality(EndOffsetsOf(n)) = 2
           /\ \E i \in TagsNamed(n) : Len(tags[i].pairs) = 2

----------------------------------------------------------------------------
(* C3 *)

\* C3: after processing, a Tag's name is in opening_errors iff it has more
\* starts than ends, in closing_errors iff fewer, in neither iff the counts
\* are equal; no name is in both lists or twice in one; a document whose
\* only marker is one unmatched opening marker yields one Tag with zero
\* pairs, listed in opening_errors and not valid.
C3_ErrorClassification ==
    pc = "done" =>
        /\ \A i \in 1..Len(tags) :
            LET t == tags[i]
                ns == Len(t.start_positions)
                ne == Len(t.end_positions)
            IN  /\ InList(t.name, opening_errors) <=> ns > ne
                /\ InList(t.name, closing_errors) <=> ns < ne
                /\ (~InList(t.name, opening_errors) /\ ~InList(t.name, closing_errors))
                       <=> ns = ne
        /\ NoDuplicates(opening_errors)
        /\ NoDuplicates(closing_errors)
        /\ Range(opening_errors) \cap Range(closing_errors) = {}
        /\ (Len(OpeningMatches(content)) = 1 /\ ClosingMatches(content) = <<>>) =>
               /\ Len(tags) = 1
               /\ tags[1].pairs = <<>>
               /\ opening_errors = <<tags[1].name>>
               /\ closing_errors = <<>>
               /\ GetValidTagCount(tags, opening_errors, closing_errors) = 0

\* The document with a single unmatched opening marker has been processed
C3_Witness ==
    /\ pc = "done"
    /\ Len(OpeningMatches(content)) = 1
    /\ ClosingMatches(content) = <<>>
    /\ Len(opening_errors) = 1

----------------------------------------------------------------------------
(* C4 *)

\* C4: every Tag of a document is in exactly one of three classes: listed in
\* opening_errors, listed in closing_errors, or error-free with at least
\* one pair; so the two list lengths plus get_valid_tag_count() equal the
\* number of Tags.
C4_ThreeClasses ==
    pc = "done" =>
        /\ \A i \in 1..Len(tags) :
            LET o == InList(tags[i].name, opening_errors)
                c == InList(tags[i].name, closing_errors)
                v == ~o /\ ~c /\ tags[i].pairs # <<>>
            IN  /\ o \/ c \/ v
                /\ ~(o /\ c) /\ ~(o /\ v) /\ ~(c /\ v)
        /\ Len(opening_errors) + Len(closing_errors)
               + GetValidTagCount(tags, opening_errors, closing_errors) = Len(tags)

\* A document with a Tag in each of the three classes has been processed
C4_Witness ==
    /\ pc = "done"
    /\ opening_errors # <<>>
    /\ closing_errors # <<>>
    /\ GetValidTagCount(tags, opening_errors, closing_errors) >= 1

----------------------------------------------------------------------------
(* C5 *)

\* C5 as stated: with two or more parts, before the demotion, a part is a
\* main_topic iff it contains no whitespace of any kind and subject_info
\* iff it contains whitespace.
C5_AnyWhitespaceDecides ==
    tpc = "categorized" =>
        \A k \in 1..Len(Parts(name)) :
            LET part == Parts(name)[k]
            IN  /\ InList(part, main_topics) <=> ~HasWhitespace(part)
                /\ InList(part, subject_info) <=> HasWhitespace(part)

\* C5 amended: with two or more parts, before the demotion, a part is a
\* main_topic iff it contains no space character and subject_info iff it
\* contains a space character; other whitespace inside a part is ignored.
C5_SpaceDecides ==
    tpc = "categorized" =>
        \A k \in 1..Len(Parts(name)) :
            LET part == Parts(name)[k]
            IN  /\ InList(part, main_topics) <=> ~Contains(part, SP)
                /\ InList(part, subject_info) <=> Contains(part, SP)

\* A part with an inner tab and a part with an inner space were categorised
C5_Witness ==
    /\ tpc = "categorized"
    /\ \E k \in 1..Len(main_topics) : Contains(main_topics[k], TAB)
    /\ \E k \in 1..Len(subject_info) : Contains(subject_info[k], SP)

----------------------------------------------------------------------------
(* C6 *)

C6_Counts ==
    /\ tpc \in {"categorized", "done"} =>
           Len(main_topics) + Len(subject_info) = Len(Parts(name))
    /\ tpc = "done" /\ Len(Parts(name)) >= 2 => subject_info # <<>>

C6_Step ==
    (tpc = "categorized" /\ Len(main_topics) >= 2 /\ subject_info = <<>>) =>
        /\ main_topics' = SubSeq(main_topics, 1, Len(main_topics) - 1)
        /\ subject_info' = <<main_topics[Len(main_topics)]>>

\* C6: when the categorisation yields at least 2 main_topics and no
\* subject_info, exactly the last main_topic is moved to subject_info, once;
\* so a name with two or more non-empty parts ends with non-empty
\* subject_info, and len(main_topics) + len(subject_info) is the number of
\* non-empty parts.
C6_Demotion == []C6_Counts /\ [][C6_Step]_vars

\* Three space-free parts: one was demoted, two main_topics remain
C6_Witness ==
    /\ tpc = "done"
    /\ Len(Parts(name)) = 3
    /\ Len(main_topics) = 2
    /\ Len(subject_info) = 1
    /\ ~HasWhitespace(subject_info[1])

----------------------------------------------------------------------------
(* C7 *)

\* C7 as stated: every main_topic has no embedded whitespace and every
\* subject_info element contains whitespace.
C7_WhitespaceInvariant ==
    tpc = "done" =>
        /\ \A k \in 1..Len(main_topics) : ~HasWhitespace(main_topics[k])
        /\ \A k \in 1..Len(subject_info) : HasWhitespace(subject_info[k])

\* C7 amended: every main_topic is non-empty and contains no space character
\* unless it is the only non-empty part of the name; every subject_info
\* element contains a space character unless it is the single demoted topic
\* of a name none of whose parts contains a space.
C7_SpaceInvariant ==
    tpc = "done" =>
        /\ \A k \in 1..Len(main_topics) :
               /\ main_topics[k] # <<>>
               /\ Contains(main_topics[k], SP) => Len(Parts(name)) = 1
        /\ \A k \in 1..Len(subject_info) :
               \/ Contains(subject_info[k], SP)
               \/ /\ Len(subject_info) = 1
                  /\ \A j \in 1..Len(Parts(name)) : ~Contains(Parts(name)[j], SP)

\* A main_topic with an inner tab next to a demoted, space-free subject_info
C7_Witness ==
    /\ tpc = "done"
    /\ Len(main_topics) = 1
    /\ Contains(main_topics[1], TAB)
    /\ Len(subject_info) = 1
    /\ ~Contains(subject_info[1], SP)

----------------------------------------------------------------------------
(* C8 *)

\* The classifier's output written back as a raw name
Rejoined == Join(main_topics, ";") \o <<";">> \o Join(subject_info, ";")
RejoinedParts == Join(main_topics \o subject_info, ";")

\* C8: classifying the name made of the main_topics joined by ';' followed
\* by the subject_info joined by ';' yields the same main_topics and the
\* same subject_info.
C8_ClassifierIdempotent ==
    tpc = "done" =>
        /\ ProcessTagContent(Rejoined) =
               [main |-> main_topics, subject |-> subject_info]
        /\ ProcessTagContent(RejoinedParts) =
               [main |-> main_topics, subject |-> subject_info]

\* A name whose parts were reordered by the classification
C8_Witness ==
    /\ tpc = "done"
    /\ main_topics # <<>>
    /\ subject_info # <<>>
    /\ Parts(name) # main_topics \o subject_info

----------------------------------------------------------------------------
(* C9 *)

\* Each occurrence is held by the Tag named by its stripped content, and a
\* Tag holds nothing else
GroupedByStrippedName ==
    /\ \A i, j \in 1..Len(tags) : tags[i].name = tags[j].name => i = j
    /\ \A i \in 1..Len(tags) :
           /\ Range(tags[i].start_positions) = StartOffsetsOf(tags[i].name)
           /\ Range(tags[i].end_positions) = EndOffsetsOf(tags[i].name)
           /\ NoDuplicates(tags[i].start_positions)
           /\ NoDuplicates(tags[i].end_positions)
    /\ \A n \in FoundNames : TagsNamed(n) # {}

\* C9 as stated: occurrences are grouped by equal raw name, and an opening
\* and a closing marker whose contents differ only by a trailing space yield
\* two distinct Tags, one with only start offsets and one with only end
\* offsets.
C9_TrailingSpaceSplitsTag ==
    Scanned =>
        /\ GroupedByStrippedName
        /\ \A mo \in Range(OpeningMatches(content)), mc \in Range(ClosingMatches(content)) :
               TrailingSpaceApart(mo.group, mc.group) =>
                   \E i, j \in 1..Len(tags) :
                       /\ i # j
                       /\ mo.end \in Range(tags[i].start_positions)
                       /\ tags[i].end_positions = <<>>
                       /\ mc.start \in Range(tags[j].end_positions)
                       /\ tags[j].start_positions = <<>>

\* C9 amended: occurrences are grouped into the same Tag iff their contents
\* are string-equal after stripping leading and trailing whitespace; an
\* opening and a closing marker whose contents differ only by a trailing
\* space yield one Tag holding both the start and the end offset.
C9_GroupedByStrippedName ==
    Scanned =>
        /\ GroupedByStrippedName
        /\ \A mo \in Range(OpeningMatches(content)), mc \in Range(ClosingMatches(content)) :
               TrailingSpaceApart(mo.group, mc.group) =>
                   \E i \in 1..Len(tags) :
                       /\ mo.end \in Range(tags[i].start_positions)
                       /\ mc.start \in Range(tags[i].end_positions)

\* An opening marker with a trailing space and its closing marker without
C9_Witness ==
    /\ pc = "done"
    /\ \E mo \in Range(OpeningMatches(content)), mc \in Range(ClosingMatches(content)) :
           /\ mo.group = mc.group \o <<SP>>
           /\ \E i \in 1..Len(tags) : tags[i].pairs = <<<<mo.end, mc.start>>>>

----------------------------------------------------------------------------
(* C10 *)

\* C10: every reported opening offset p is the index just past the '>' of
\* a substring <X> where X does not begin with '/', contains no '>', and is
\* the Tag's name before stripping.
C10_OpeningMarkerShape ==
    Scanned =>
        \A i \in 1..Len(tags) :
            \A p \in Range(tags[i].start_positions) :
                /\ p >= 2
                /\ At(content, p - 1) = ">"
                /\ \E k \in 0..(p - 2) :
                       LET X == Slice(content, k + 1, p - 1)
                       IN  /\ At(content, k) = "<"
                           /\ X # <<>> => X[1] # "/"
                           /\ ~Contains(X, ">")
                           /\ Strip(X) = tags[i].name

----------------------------------------------------------------------------
(* C11 *)

\* The document is pre <N> t </N> post with no other marker: o and g are the
\* indices of the opening marker's '<' and '>', c and h those of the closing
\* marker's.
OpensAt(o, g) ==
    LET N == Slice(content, o + 1, g)
    IN  /\ o < g
        /\ At(content, o) = "<" /\ At(content, g) = ">"
        /\ ~Contains(Slice(content, 0, o), "<")
        /\ N # <<>> /\ N[1] # "/"
        /\ ~Contains(N, "<") /\ ~Contains(N, ">")

ClosesAt(o, g, c, h) ==
    /\ g < c /\ c + 1 < h
    /\ At(content, c) = "<" /\ At(content, c + 1) = "/" /\ At(content, h) = ">"
    /\ Slice(content, c + 2, h) = Slice(content, o + 1, g)
    /\ ~Contains(Slice(content, g + 1, c), "<")
    /\ ~Contains(Slice(content, h + 1, Len(content)), "<")

OneMarkedSpan(o, g, c, h) == OpensAt(o, g) /\ ClosesAt(o, g, c, h)

Indices == 0..(Len(content) - 1)

\* C11: for a document holding one opening marker <N>, a text t without
\* markers and the closing marker </N>, the Tag N has exactly one pair
\* (start, end): start is the index just after the opening '>', end the
\* index of the closing '<', and content[start:end] = t.
C11_SpanIsEnclosedText ==
    pc = "done" =>
        \A o, g \in Indices :
            OpensAt(o, g) =>
                \A c, h \in Indices :
                    ClosesAt(o, g, c, h) =>
                        \E i \in 1..Len(tags) :
                            /\ tags[i].name = Strip(Slice(content, o + 1, g))
                            /\ tags[i].pairs = << <<g + 1, c>> >>
                            /\ MatchText(content, tags[i].pairs[1]) = Slice(content, g + 1, c)

\* Such a document, with a non-empty text before and inside the span
C11_Witness ==
    /\ pc = "done"
    /\ \E o, g, c, h \in Indices :
           /\ OneMarkedSpan(o, g, c, h)
           /\ o > 0
           /\ c > g + 1

----------------------------------------------------------------------------
(* Reindex runs *)

Started == {id \in RunIds : runs[id].pc # "idle"}

\* The document a run parsed at one step of its walk
DocOf(p) == ParseAdhyaya(FileEntry(corpus, p.dir, p.file).text)

RECURSIVE SumOver(_, _)
SumOver(f, n) == IF n = 0 THEN 0 ELSE f[n] + SumOver(f, n - 1)

\* The documents whose tag loop a run has finished
DocsDone(r) ==
    IF r.pc \in {"insert_adhyaya", "upsert_tag"}
    THEN SubSeq(r.processed, 1, Len(r.processed) - 1)
    ELSE r.processed

ValidTagCounts(ps) ==
    [i \in 1..Len(ps) |->
        LET doc == DocOf(ps[i])
        IN  GetValidTagCount(doc.tags, doc.opening_errors, doc.closing_errors)]

\* C12: the valid_tag_count a run has accumulated is the sum, over the
\* documents whose tag loop it has finished, of that document's valid-tag count
\* (Tags with no opening or closing error and at least one pair); the count of
\* a completed run, and the count in the statistics record it stored, is that
\* sum over all the documents it processed.
C12_ValidTagCountIsSum ==
    \A id \in Started :
        LET r == runs[id]
            counts == ValidTagCounts(DocsDone(r))
            total == SumOver(counts, Len(counts))
        IN  /\ r.pc # "failed" => r.stats.valid_tag_count = total
            /\ r.pc = "complete" =>
                   \A rec \in db_statistics :
                       rec.run = id => rec.count_stats.valid_tag_count = total

\* A completed run that processed a document with a Tag in error, and counted
\* at least two valid Tags over all its documents
C12_Witness ==
    \E id \in Started :
        /\ runs[id].pc = "complete"
        /\ runs[id].stats.valid_tag_count >= 2
        /\ \E i \in 1..Len(runs[id].processed) :
               DocOf(runs[id].processed[i]).opening_errors # <<>>
        /\ \E rec \in db_statistics : rec.run = id

\* The step is one of run id
Moved(id) ==
    [runs'[id] EXCEPT !.overlapped = FALSE] # [runs[id] EXCEPT !.overlapped = FALSE]

WritePcs == {"insert_adhyaya", "upsert_tag", "insert_khanda"}

\* The step is one of run id that adds or changes a record of the tag,
\* document or unit collection, or attempts to
WritesIn(id) ==
    /\ Moved(id)
    /\ \/ runs[id].pc \in WritePcs
       \/ runs'[id].writes > runs[id].writes
       \/ /\ runs[id].pc # "idle"
          /\ \/ db_tags' \ db_tags # {}
             \/ db_adhyayas' \ db_adhyayas # {}
             \/ db_khandas' \ db_khandas # {}

\* The step is the k-th clearing step of run id
ClearsIn(id, k) == runs[id].cleared = k - 1 /\ runs'[id].cleared = k

\* C13: in every run the three clearing steps empty the tag, the document and
\* the unit collection, in that order, and every insert_adhyaya, upsert_tag and
\* insert_khanda of the run happens after all three of its own clearing steps.
C13_ClearBeforeWrites ==
    [][\A id \in RunIds :
          /\ ClearsIn(id, 1) => db_tags' = {}
          /\ ClearsIn(id, 2) => db_adhyayas' = {}
          /\ ClearsIn(id, 3) => db_khandas' = {}
          /\ runs'[id].cleared \in {runs[id].cleared, runs[id].cleared + 1}
          /\ WritesIn(id) => runs[id].cleared = 3]_vars

\* A run that cleared a store holding stale records and has since written a
\* document, a tag and a unit
C13_Witness ==
    \E id \in Started :
        /\ runs[id].cleared = 3
        /\ runs[id].writes >= 3
        /\ db_statistics = StaleStatistics
        /\ db_tags # {} /\ db_adhyayas # {} /\ db_khandas # {}

InFlight == {id \in RunIds : Active(runs[id])}

\* C14: at most one reindex run is in flight at any time, so the store
\* operations of two runs never interleave.
C14_AtMostOneRunInFlight == Cardinality(InFlight) <= 1

\* C15: a run processes the units in ascending order of their leading
\* integer, whatever the digit lengths of the ids, and the documents of one
\* unit in ascending order of their integer filename.
C15_AscendingOrder ==
    \A id \in Started :
        LET ps == runs[id].processed
        IN  \A i, j \in 1..Len(ps) :
                i < j =>
                    /\ ps[i].khanda_id <= ps[j].khanda_id
                    /\ ps[i].dir = ps[j].dir => ps[i].adhyaya_id < ps[j].adhyaya_id

\* The occurrences a document contributes for the name n: all pairs of the Tag
\* n if its start and end counts are equal, none otherwise
OccSet(p, n) ==
    LET doc == DocOf(p)
    IN  UNION {{[khanda_id |-> p.khanda_id, adhyaya_id |-> p.adhyaya_id,
                 start |-> doc.tags[i].pairs[k][1], end |-> doc.tags[i].pairs[k][2]] :
                    k \in 1..Len(doc.tags[i].pairs)} :
               i \in {i \in 1..Len(doc.tags) :
                         /\ doc.tags[i].name = n
                         /\ Len(doc.tags[i].start_positions)
                                = Len(doc.tags[i].end_positions)}}

TagNamed(doc, n) == doc.tags[CHOOSE i \in 1..Len(doc.tags) : doc.tags[i].name = n]

\* C16: when a run merges a valid Tag of a document and an earlier document of
\* the same run had a valid Tag of the same raw name, the index entry for
\* that name then has the main_topics and subject_info of the first of these
\* documents and its occurrences include those of both documents.
C16_FirstWriterKept ==
    [][\A id \in RunIds :
          LET r == runs[id]
              ps == r.processed
              n == r.doc.tags[r.ti].name
              earlier == {i \in 1..(Len(ps) - 1) : OccSet(ps[i], n) # {}}
              first == CHOOSE i \in earlier : \A j \in earlier : i <= j
          IN  (r.pc = "upsert_tag" /\ Moved(id) /\ earlier # {}) =>
                  \E e \in db_tags' :
                      /\ e.name = n
                      /\ e.main_topics = TagNamed(DocOf(ps[first]), n).main_topics
                      /\ e.subject_info = TagNamed(DocOf(ps[first]), n).subject_info
                      /\ \A i \in earlier \cup {Len(ps)} :
                             OccSet(ps[i], n) \subseteq Range(e.occurrences)]_vars

\* The documents of the corpus: every file <int>.txt of every directory
\* <int>_<name>
CorpusDocs ==
    UNION {{[khanda_id |-> KhandaId(d.name), adhyaya_id |-> AdhyayaId(f.name),
             dir |-> d.name, file |-> f.name] :
                f \in {y \in d.files : IsAdhyayaFile(y.name)}} :
           d \in {x \in corpus : x.isdir /\ KhandaMatch(x.name)}}

CorpusNames ==
    UNION {{DocOf(p).tags[i].name : i \in 1..Len(DocOf(p).tags)} : p \in CorpusDocs}

ExpectedOccurrences(n) == UNION {OccSet(p, n) : p \in CorpusDocs}

\* Run id has completed, no other run was in flight while it ran, and no run
\* was requested after it
CompletedAlone(id) ==
    /\ runs[id].pc = "complete"
    /\ ~runs[id].overlapped
    /\ \A q \in RunIds : q > id => runs[q].pc = "idle"

\* C17: after a run completes without another run overlapping it, whatever the
\* store held before, every index entry's occurrences are exactly the pairs of
\* its name in the documents of the corpus where the name's start and end
\* counts are equal, each once; a name has an entry iff it has such an
\* occurrence, and exactly one.
C17_IndexIsExpected ==
    \A id \in Started :
        CompletedAlone(id) =>
            /\ \A e \in db_tags :
                   /\ Range(e.occurrences) = ExpectedOccurrences(e.name)
                   /\ NoDuplicates(e.occurrences)
                   /\ e.occurrences # <<>>
                   /\ \A e2 \in db_tags : e2.name = e.name => e2 = e
            /\ \A n \in CorpusNames :
                   ExpectedOccurrences(n) # {} => \E e \in db_tags : e.name = n

\* A second run completed alone on a store the first run had filled; the
\* corpus has a document with an imbalanced Tag and a name with occurrences
\* in three documents
C17_Witness ==
    /\ runs[1].pc = "complete"
    /\ CompletedAlone(2)
    /\ \E p \in CorpusDocs : DocOf(p).opening_errors # <<>>
    /\ \E p \in CorpusDocs : DocOf(p).closing_errors # <<>>
    /\ \E e \in db_tags : Len(e.occurrences) >= 4

\* An index with the occurrences of each entry taken as a set
IndexView(coll) ==
    {[name |-> e.name, main_topics |-> e.main_topics, subject_info |-> e.subject_info,
      occurrences |-> Range(e.occurrences)] : e \in coll}

\* The index a corpus determines: one entry per name with an occurrence
ExpectedIndex ==
    {[name |-> n,
      main_topics |-> ProcessTagContent(n).main,
      subject_info |-> ProcessTagContent(n).subject,
      occurrences |-> ExpectedOccurrences(n)] :
        n \in {m \in CorpusNames : ExpectedOccurrences(m) # {}}}

\* C18: the merge into the index is commutative and associative: in every
\* state, applying two calls not yet applied in either order gives the same
\* entries (occurrences as sets), and once the calls of all the documents are
\* applied, in whatever order, the index is the one the corpus determines,
\* with one entry per name and no occurrence twice.
C18_MergeOrderIrrelevant ==
    /\ \A c1, c2 \in pending :
           IndexView(Apply(Apply(db_tags, c1), c2))
               = IndexView(Apply(Apply(db_tags, c2), c1))
    /\ pending = {} =>
           /\ IndexView(db_tags) = ExpectedIndex
           /\ \A e \in db_tags :
                  /\ NoDuplicates(e.occurrences)
                  /\ \A e2 \in db_tags : e2.name = e.name => e2 = e

\* All calls applied, three of them for one name, and the entry's occurrences
\* are not in the order of the documents
C18_Witness ==
    /\ pending = {}
    /\ Cardinality(UpsertCalls(corpus)) >= 3
    /\ \E e \in db_tags :
           /\ Len(e.occurrences) >= 3
           /\ e.occurrences[1].adhyaya_id > e.occurrences[Len(e.occurrences)].adhyaya_id

\* C19: the statistics store holds at most one record, also when the steps of
\* runs interleave, and once a run has completed and no other run has reached
\* its own statistics step, the store holds exactly the record of that run.
C19_SingleStatisticsRecord ==
    /\ Cardinality(db_statistics) <= 1
    /\ \A id \in Started :
           (/\ runs[id].pc = "complete"
            /\ \A q \in RunIds \ {id} :
                   runs[q].pc \notin {"insert_statistics", "complete"})
               => db_statistics = {StatisticsDoc(id, runs[id])}

\* Every record of the store is still there after the step, a tag entry with
\* at least the occurrences it had
NothingRolledBack ==
    /\ db_adhyayas \subseteq db_adhyayas'
    /\ db_khandas \subseteq db_khandas'
    /\ db_statistics \subseteq db_statistics'
    /\ \A e \in db_tags :
           \E e2 \in db_tags' :
               /\ e2.name = e.name
               /\ e2.main_topics = e.main_topics
               /\ e2.subject_info = e.subject_info
               /\ Range(e.occurrences) \subseteq Range(e2.occurrences)

\* The walk of run id stands at a file that cannot be read
AtUnreadable(id) ==
    LET r == runs[id]
    IN  /\ r.ki \in 1..Len(r.khanda_dirs)
        /\ r.ai \in 1..Len(r.adhyaya_files)
        /\ ~CurrentEntry(corpus, r).readable

\* Run id is at an insert the store rejects
AtRejectedInsert(id) ==
    LET r == runs[id]
    IN  \/ /\ r.pc = "insert_adhyaya"
           /\ \E e \in db_adhyayas :
                  e.id = <<CurrentKhandaId(r), CurrentAdhyayaId(r)>>
        \/ /\ r.pc = "insert_khanda"
           /\ \E e \in db_khandas : e.id = CurrentKhandaId(r)

\* The step by which run id fails logs its error and, the clearing steps
\* being over, removes nothing from the store
C20_Failing(id) ==
    /\ runs[id].pc # "failed"
    /\ runs'[id].pc = "failed"
    /\ \E error \in {"unreadable", "duplicate_key"} :
           /\ [run |-> id, error |-> error] \notin error_log
           /\ error_log' = error_log \cup {[run |-> id, error |-> error]}
    /\ runs[id].cleared = 3 => NothingRolledBack

C20_Step ==
    \A id \in RunIds :
        /\ (runs[id].pc # "failed" /\ runs'[id].pc = "failed") => C20_Failing(id)
        /\ (Moved(id) /\ AtRejectedInsert(id)) =>
               /\ runs'[id].pc = "failed"
               /\ storeVars' = storeVars
        /\ runs[id].pc = "failed" =>
               /\ ~Moved(id)
               /\ runs'[id].processed = runs[id].processed
               /\ runs'[id].writes = runs[id].writes

\* C20: a run that stands at an unreadable file, or whose insert the store
\* rejects, is FAILED; the failing step logs the error and removes nothing
\* from the store (a rejected insert leaves the store as it was), and a FAILED
\* run takes no further step: it processes no later document or unit.
C20_FailureStopsRun ==
    /\ [](\A id \in Started : AtUnreadable(id) => runs[id].pc = "failed")
    /\ [][C20_Step]_vars

\* A run failed at an unreadable file after it had written a document and a
\* tag that are still in the store, with a later unit left unprocessed; the other
\* run failed at a rejected insert
C20_Witness ==
    \E id, q \in Started :
        /\ runs[id].pc = "failed" /\ runs[id].error = "unreadable"
        /\ runs[id].writes >= 2
        /\ runs[id].ki < Len(KhandaDirs(corpus))
        /\ [run |-> id, error |-> "unreadable"] \in error_log
        /\ \E e \in db_adhyayas : e.id = <<runs[id].processed[1].khanda_id,
                                            runs[id].processed[1].adhyaya_id>>
        /\ db_tags # {}
        /\ runs[q].pc = "failed" /\ runs[q].error = "duplicate_key"

\* The error entries a document must yield: one per start offset of a Tag
\* with more starts than ends that opens no pair
ExpectedOpeningErrors(p) ==
    LET doc == DocOf(p)
    IN  UNION {{[tag_name |-> doc.tags[i].name, khanda_id |-> p.khanda_id,
                 adhyaya_id |-> p.adhyaya_id, position |-> pos,
                 file_path |-> FilePath(p.dir, p.file)] :
                    pos \in {x \in Range(doc.tags[i].start_positions) :
                                \A k \in 1..Len(doc.tags[i].pairs) :
                                    doc.tags[i].pairs[k][1] # x}} :
               i \in {i \in 1..Len(doc.tags) :
                         Len(doc.tags[i].start_positions) > Len(doc.tags[i].end_positions)}}

\* and one per end offset of a Tag with more ends than starts that closes no pair
ExpectedClosingErrors(p) ==
    LET doc == DocOf(p)
    IN  UNION {{[tag_name |-> doc.tags[i].name, khanda_id |-> p.khanda_id,
                 adhyaya_id |-> p.adhyaya_id, position |-> pos,
                 file_path |-> FilePath(p.dir, p.file)] :
                    pos \in {x \in Range(doc.tags[i].end_positions) :
                                \A k \in 1..Len(doc.tags[i].pairs) :
                                    doc.tags[i].pairs[k][2] # x}} :
               i \in {i \in 1..Len(doc.tags) :
                         Len(doc.tags[i].start_positions) < Len(doc.tags[i].end_positions)}}

\* The entries of a list that belong to the Tag n of the document p
EntriesOf(l, p, n) ==
    {i \in 1..Len(l) :
        /\ l[i].tag_name = n
        /\ l[i].file_path = FilePath(p.dir, p.file)}

\* C21: the statistics of a completed run hold exactly one error entry (name,
\* khanda_id, adhyaya_id, position, file path) per start offset opening no pair
\* of a Tag with more starts than ends and per end offset closing no pair of a
\* Tag with more ends than starts, for every processed document: for each
\* imbalanced Tag |#starts - #ends| entries; the two counts are the lengths of
\* the two lists, and the stored record carries the same lists and counts.
C21_EveryImbalanceListed ==
    \A id \in Started :
        runs[id].pc = "complete" =>
            LET r == runs[id]
                oe == r.invalid_tags.opening_errors
                ce == r.invalid_tags.closing_errors
                ps == Range(r.processed)
            IN  /\ Range(oe) = UNION {ExpectedOpeningErrors(p) : p \in ps}
                /\ Range(ce) = UNION {ExpectedClosingErrors(p) : p \in ps}
                /\ NoDuplicates(oe) /\ NoDuplicates(ce)
                /\ \A p \in ps :
                       \A i \in 1..Len(DocOf(p).tags) :
                           LET t == DocOf(p).tags[i]
                               d == Len(t.start_positions) - Len(t.end_positions)
                           IN  /\ d > 0 => Cardinality(EntriesOf(oe, p, t.name)) = d
                               /\ d < 0 => Cardinality(EntriesOf(ce, p, t.name)) = 0 - d
                               /\ d <= 0 => EntriesOf(oe, p, t.name) = {}
                               /\ d >= 0 => EntriesOf(ce, p, t.name) = {}
                /\ r.stats.opening_error_count = Len(oe)
                /\ r.stats.closing_error_count = Len(ce)
                /\ \A rec \in db_statistics :
                       rec.run = id =>
                           /\ rec.invalid_tags = r.invalid_tags
                           /\ rec.count_stats = r.stats

\* A completed run over a document in which a Tag with a pair has an unmatched
\* start and another an unmatched end, with its record stored
C21_Witness ==
    \E id \in Started :
        /\ runs[id].pc = "complete"
        /\ \E rec \in db_statistics : rec.run = id
        /\ \E p \in Range(runs[id].processed) :
               \E i, j \in 1..Len(DocOf(p).tags) :
                   /\ DocOf(p).tags[i].pairs # <<>>
                   /\ Len(DocOf(p).tags[i].start_positions) = 2
                   /\ Len(DocOf(p).tags[i].end_positions) = 1
                   /\ DocOf(p).tags[j].pairs # <<>>
                   /\ Len(DocOf(p).tags[j].end_positions) = 2
                   /\ Len(DocOf(p).tags[j].start_positions) = 1

\* The document and unit records the corpus determines
ExpectedAdhyayas ==
    {AdhyayaRecord(p.khanda_id, p.adhyaya_id, FilePath(p.dir, p.file), DocOf(p)) :
        p \in CorpusDocs}

ExpectedKhandas ==
    {KhandaRecord(KhandaId(d), KhandaName(d),
                  [i \in 1..Len(AdhyayaFiles(corpus, d)) |->
                      AdhyayaId(AdhyayaFiles(corpus, d)[i])]) :
        d \in {x.name : x \in {y \in corpus : y.isdir /\ KhandaMatch(y.name)}}}

\* A statistics record without what identifies its run
StatisticsOf(rec) ==
    [valid_tags |-> rec.valid_tags, invalid_tags |-> rec.invalid_tags,
     count_stats |-> rec.count_stats]

\* C22: a run that completes alone leaves tag entries (occurrences as sets),
\* document records and unit records that depend on the corpus only, so the
\* second of two runs in sequence leaves what the first left; its statistics
\* record is the only one and equals that of the run before it but for the
\* run it belongs to.
C22_RebuildIdempotent ==
    \A id \in Started :
        CompletedAlone(id) =>
            /\ IndexView(db_tags) = ExpectedIndex
            /\ db_adhyayas = ExpectedAdhyayas
            /\ db_khandas = ExpectedKhandas
            /\ db_statistics = {StatisticsDoc(id, runs[id])}
            /\ \A q \in Started :
                   (q < id /\ runs[q].pc = "complete") =>
                       StatisticsOf(StatisticsDoc(q, runs[q]))
                           = StatisticsOf(StatisticsDoc(id, runs[id]))

\* The second of two runs in sequence has completed, on a corpus with valid
\* Tags, errors, and more than one unit
C22_Witness ==
    /\ runs[1].pc = "complete" /\ ~runs[1].overlapped
    /\ CompletedAlone(2)
    /\ Cardinality(db_khandas) >= 2
    /\ db_tags # {}
    /\ runs[2].invalid_tags.opening_errors # <<>>

----------------------------------------------------------------------------
(* Unpaired offsets *)

\* The start offsets the indexer reports as opening errors of a Tag
ReportedStarts(t) ==
    LET es == OpeningErrorEntries(t, 0, 0, <<>>)
    IN  {es[i].position : i \in 1..Len(es)}

UnpairedStarts(t) ==
    {x \in Range(t.start_positions) : \A k \in 1..Len(t.pairs) : t.pairs[k][1] # x}

Smallest(S, k) == {x \in S : Cardinality({y \in S : y < x}) < k}
Largest(S, k) == {x \in S : Cardinality({y \in S : y > x}) < k}

Surplus(t) == Len(t.start_positions) - Len(t.end_positions)

\* C26 as claimed: the start offsets of a Tag with more starts than ends that
\* are left unpaired, and reported as opening errors, are its smallest ones.
C26_LeadingStartsUnpaired ==
    pc \in {"matched", "done"} =>
        \A i \in 1..Len(tags) :
            Surplus(tags[i]) > 0 =>
                /\ UnpairedStarts(tags[i])
                       = Smallest(Range(tags[i].start_positions), Surplus(tags[i]))
                /\ ReportedStarts(tags[i]) = UnpairedStarts(tags[i])

\* C26 amended: the start offsets of a Tag with more starts than ends that are
\* left unpaired, and reported as opening errors, are its largest ones; the
\* smallest are paired with the end offsets.
C26_TrailingStartsUnpaired ==
    pc \in {"matched", "done"} =>
        \A i \in 1..Len(tags) :
            Surplus(tags[i]) > 0 =>
                /\ UnpairedStarts(tags[i])
                       = Largest(Range(tags[i].start_positions), Surplus(tags[i]))
                /\ ReportedStarts(tags[i]) = UnpairedStarts(tags[i])

\* A matched Tag with a pair and an unpaired start offset
C26_Witness ==
    /\ pc = "done"
    /\ \E i \in 1..Len(tags) :
           /\ Surplus(tags[i]) > 0
           /\ tags[i].pairs # <<>>
           /\ UnpairedStarts(tags[i]) # {}

----------------------------------------------------------------------------
(* Store consistency *)

NoOverlap == \A id \in RunIds : ~runs[id].overlapped

\* C27: as long as no run has overlapped another, in every state, also in the
\* middle of a run, every occurrence of every tag entry refers to a document
\* record that is in the document store.
C27_OccurrencesHaveDocuments ==
    NoOverlap =>
        \A e \in db_tags :
            \A i \in 1..Len(e.occurrences) :
                \E d \in db_adhyayas :
                    /\ d.khanda_id = e.occurrences[i].khanda_id
                    /\ d.adhyaya_id = e.occurrences[i].adhyaya_id

\* A run in the middle of a document: its record is stored and a tag of it is
\* about to be upserted, after an earlier document's tag was
C27_Witness ==
    /\ NoOverlap
    /\ \E id \in Started :
           /\ runs[id].pc = "upsert_tag"
           /\ Len(runs[id].processed) >= 2
           /\ db_tags # {}
           /\ \E d \in db_adhyayas :
                  d.id = <<CurrentKhandaId(runs[id]), CurrentAdhyayaId(runs[id])>>

----------------------------------------------------------------------------
(* Indexing status *)

\* The most recently requested run, 0 if none was: the record the store held
\* at startup is of run 0
LastStarted == IF Started = {} THEN 0 ELSE CHOOSE id \in Started : \A q \in Started : q <= id

\* C25: whenever the indexing-status operation answers 'indexed' and the most
\* recently started run has cleared the index, the statistics returned are
\* those of that run (never those of an earlier run while the later one is
\* still running or has failed), and they count the documents and units the
\* index holds.
C25_StatusIsOfLastRun ==
    (/\ GetIndexingStatus.status = "indexed"
     /\ LastStarted > 0
     /\ runs[LastStarted].cleared = 3)
        => /\ GetLatestStatistics.run = LastStarted
           /\ GetIndexingStatus.statistics.adhyaya_count = Cardinality(db_adhyayas)
           /\ GetIndexingStatus.statistics.khanda_count = Cardinality(db_khandas)

----------------------------------------------------------------------------
(* Balanced markers *)

OpeningsNamed(n) == {m \in Range(OpeningMatches(content)) : Strip(m.group) = n}
ClosingsNamed(n) == {m \in Range(ClosingMatches(content)) : Strip(m.group) = n}

\* The markers of name n form a balanced bracket sequence in text order: up
\* to and including each closing marker there are at least as many opening
\* markers as closing ones, and the totals are equal
Balanced(n) ==
    /\ Cardinality(OpeningsNamed(n)) = Cardinality(ClosingsNamed(n))
    /\ \A c \in ClosingsNamed(n) :
           Cardinality({x \in ClosingsNamed(n) : x.start <= c.start})
               <= Cardinality({x \in OpeningsNamed(n) : x.start < c.start})

PairsAscending(ps) ==
    \A k, l \in 1..Len(ps) : k < l => ps[k][1] < ps[l][1] /\ ps[k][2] < ps[l][2]

\* C29: when the opening and closing markers of one name occur in the
\* document as a balanced bracket sequence, every pair produced by the
\* sort-and-zip pairing has start <= end, and the pairs are ascending in both
\* components.
C29_BalancedPairsOrdered ==
    pc \in {"matched", "done"} =>
        \A i \in 1..Len(tags) :
            Balanced(tags[i].name) =>
                /\ Len(tags[i].pairs) = Cardinality(OpeningsNamed(tags[i].name))
                /\ \A k \in 1..Len(tags[i].pairs) : tags[i].pairs[k][1] <= tags[i].pairs[k][2]
                /\ PairsAscending(tags[i].pairs)

\* A name whose markers are nested: both markers open before the first one
\* closes
C29_Witness ==
    /\ pc = "matched"
    /\ \E i \in 1..Len(tags) :
           /\ Balanced(tags[i].name)
           /\ Len(tags[i].pairs) = 2
           /\ \A c \in ClosingsNamed(tags[i].name) :
                  \A o \in OpeningsNamed(tags[i].name) : o.start < c.start

----------------------------------------------------------------------------
(* database/mongodb.py: reading one stored adhyaya *)

NL == "\n"

\* Texts of the stored adhyayas: literal text, line breaks and markers
StoredPieces ==
    { <<"x">>, <<NL>>,
      <<"<", "a", ">">>, <<"<", "/", "a", ">">>,
      <<"<", "b", ">">>, <<"<", "/", "b", ">">> }
StoredTexts == {Concat(ps) : ps \in SeqsUpTo(StoredPieces, MaxPieces)}

\* Path parameters accepted by the routes (khanda_id: ge=1, adhyaya_id: ge=1)
MaxId == 2
Ids == 1..MaxId

\* Optional[int] query parameter that was not given
None == 0

Max(a, b) == IF a >= b THEN a ELSE b

\* list.sort(key=lambda x: x["start"]): stable, ascending
RECURSIVE InsertByStart(_, _)
InsertByStart(x, l) ==
    IF l = <<>> THEN <<x>>
    ELSE IF x.start < Head(l).start THEN <<x>> \o l
         ELSE <<Head(l)>> \o InsertByStart(x, Tail(l))

RECURSIVE SortByStart(_)
SortByStart(l) ==
    IF l = <<>> THEN <<>>
    ELSE InsertByStart(l[Len(l)], SortByStart(SubSeq(l, 1, Len(l) - 1)))

\* Lines 787-791: one entry per pair of one tag
PositionsOfTag(tag) ==
    [k \in 1..Len(tag.pairs) |->
        [tag_name |-> tag.name, start |-> tag.pairs[k][1], end |-> tag.pairs[k][2]]]

RECURSIVE PositionsOfTags(_)
PositionsOfTags(ts) ==
    IF ts = <<>> THEN <<>> ELSE PositionsOfTag(Head(ts)) \o PositionsOfTags(Tail(ts))

\* _structure_adhyaya_tags lines 785-800, the highlight_positions entry
StructureAdhyayaTags(adhyaya_doc) ==
    [highlight_positions |-> SortByStart(PositionsOfTags(adhyaya_doc.tags))]

\* Database.get_adhyaya_content lines 597-617: find_one on (khanda_id,
\* adhyaya_id), the khanda name and the structured tags added; found is FALSE
\* for the None result. The khanda_name and navigation entries are left out.
DbGetAdhyayaContent(khanda_id, adhyaya_id) ==
    LET docs == {d \in db_adhyayas : d.khanda_id = khanda_id /\ d.adhyaya_id = adhyaya_id}
    IN  IF docs = {} THEN [found |-> FALSE]
        ELSE LET adhyaya_doc == CHOOSE d \in docs : TRUE
             IN  [found |-> TRUE,
                  khanda_id |-> adhyaya_doc.khanda_id,
                  adhyaya_id |-> adhyaya_doc.adhyaya_id,
                  content |-> adhyaya_doc.content,
                  tags |-> adhyaya_doc.tags,
                  structured_tags |-> StructureAdhyayaTags(adhyaya_doc)]

----------------------------------------------------------------------------
(* routes/content.py and routes/search.py: the read operations *)

\* raise HTTPException(status_code=...)
HTTPException(status_code) == [raised |-> TRUE, status_code |-> status_code]

\* return ...
Return(body) == [raised |-> FALSE, body |-> body]

\* except Exception as e: raise HTTPException(status_code=500, ...), around
\* the whole body of each handler. HTTPException is a subclass of Exception.
ExceptException(outcome) == IF outcome.raised THEN HTTPException(500) ELSE outcome

\* What the caller receives
Respond(op, args, outcome) ==
    IF outcome.raised
    THEN [op |-> op, args |-> args, status |-> outcome.status_code]
    ELSE [op |-> op, args |-> args, status |-> 200, body |-> outcome.body]

\* get_adhyaya_content lines 46-74
AdhyayaContentBody(khanda_id, adhyaya_id) ==
    LET adhyaya == DbGetAdhyayaContent(khanda_id, adhyaya_id)
    IN  IF ~adhyaya.found THEN HTTPException(404)
        ELSE Return([khanda_id |-> adhyaya.khanda_id,
                     adhyaya_id |-> adhyaya.adhyaya_id,
                     content |-> adhyaya.content,
                     structured_tags |-> adhyaya.structured_tags,
                     metadata |-> [tag_count |-> Len(adhyaya.tags),
                                   content_length |-> Len(adhyaya.content)]])

\* get_tag_in_adhyaya lines 104-161
TagInAdhyayaBody(khanda_id, adhyaya_id, tag_name) ==
    LET adhyaya == DbGetAdhyayaContent(khanda_id, adhyaya_id)
    IN  IF ~adhyaya.found THEN HTTPException(404)
        ELSE LET i == FindTagByName(adhyaya.tags, tag_name)
             IN  IF i = 0 THEN HTTPException(404)
                 ELSE LET tag_data == adhyaya.tags[i]
                          text == adhyaya.content
                          occurrences ==
                              [k \in 1..Len(tag_data.pairs) |->
                                  LET start == tag_data.pairs[k][1]
                                      end == tag_data.pairs[k][2]
                                      context_start == Max(0, start - 100)
                                      context_end == Min(Len(text), end + 100)
                                  IN  [start |-> start, end |-> end,
                                       before_text |-> Slice(text, context_start, start),
                                       match_text |-> Slice(text, start, end),
                                       after_text |-> Slice(text, end, context_end)]]
                      IN  Return([tag_name |-> tag_name,
                                  main_topics |-> tag_data.main_topics,
                                  subject_info |-> tag_data.subject_info,
                                  occurrences |-> occurrences,
                                  occurrence_count |-> Len(occurrences)])

\* str.lower() on the characters of a category
LowerChar(c) == IF c = "A" THEN "a" ELSE IF c = "B" THEN "b" ELSE IF c = "X" THEN "x" ELSE c
Lower(str) == [k \in 1..Len(str) |-> LowerChar(str[k])]

\* The rendered output is a sequence of elements: one per character of
\* literal text, one per boundary marker
Text(str) == [k \in 1..Len(str) |-> [kind |-> "text", ch |-> str[k]]]

\* Line 245: <span id="tag-i" class="tagged-text tag-category-..."
\*           data-tag-name="..." data-tag-id="i">
OpenSpan(i, category, tag_name) ==
    [kind |-> "open", id |-> i, category |-> Lower(category), tag_name |-> tag_name]

\* Line 260: </span>
CloseSpan == [kind |-> "close"]

DefaultCategory == <<"d", "e", "f", "a", "u", "l", "t">>

\* Lines 222-236: the first main topic of the first tag of that name
Category(adhyaya, tag_name) ==
    LET i == FindTagByName(adhyaya.tags, tag_name)
    IN  IF i # 0 /\ Len(adhyaya.tags[i].main_topics) > 0
        THEN adhyaya.tags[i].main_topics[1]
        ELSE DefaultCategory

\* list.sort(key=lambda x: (x["start"], -x["end"])), line 210: stable
RECURSIVE InsertForNesting(_, _)
InsertForNesting(x, l) ==
    IF l = <<>> THEN <<x>>
    ELSE IF \/ x.start < Head(l).start
            \/ x.start = Head(l).start /\ (0 - x.end) < (0 - Head(l).end)
         THEN <<x>> \o l
         ELSE <<Head(l)>> \o InsertForNesting(x, Tail(l))

RECURSIVE SortForNesting(_)
SortForNesting(l) ==
    IF l = <<>> THEN <<>>
    ELSE InsertForNesting(l[Len(l)], SortForNesting(SubSeq(l, 1, Len(l) - 1)))

\* Lines 213-215
NoParts == [html_parts |-> <<>>, current_pos |-> 0, open_tags |-> <<>>]

\* Mutant: the span opened before is closed when the next one opens
RenderSpanClosingPrevious(adhyaya, st, i, pos) ==
    [html_parts |->
        st.html_parts
            \o (IF pos.start > st.current_pos
                THEN Text(Slice(adhyaya.content, st.current_pos, pos.start))
                ELSE <<>>)
            \o (IF st.open_tags # <<>> THEN <<CloseSpan>> ELSE <<>>)
            \o <<OpenSpan(i, Category(adhyaya, pos.tag_name), pos.tag_name)>>,
     current_pos |-> pos.start,
     open_tags |-> <<<<i, pos.end>>>>]

\* Lines 217-252, the body of the loop for the i-th position (i from 0)
RenderSpan(adhyaya, st, i, pos) ==
    [html_parts |->
        st.html_parts
            \o (IF pos.start > st.current_pos
                THEN Text(Slice(adhyaya.content, st.current_pos, pos.start))
                ELSE <<>>)
            \o <<OpenSpan(i, Category(adhyaya, pos.tag_name), pos.tag_name)>>,
     current_pos |-> pos.start,
     open_tags |-> Append(st.open_tags, <<i, pos.end>>)]

RECURSIVE RenderSpans(_, _, _, _)
RenderSpans(adhyaya, positions, n, st) ==
    IF n > Len(positions) THEN st
    ELSE RenderSpans(adhyaya, positions, n + 1,
                     RenderSpan(adhyaya, st, n - 1, positions[n]))

\* str.replace("\n", "<br/>") on a string
RECURSIVE ReplaceLineBreaks(_)
ReplaceLineBreaks(str) ==
    IF str = <<>> THEN <<>>
    ELSE (IF Head(str) = NL THEN <<"<", "b", "r", "/", ">">> ELSE <<Head(str)>>)
             \o ReplaceLineBreaks(Tail(str))

\* Line 267: html_content.replace("\n", "<br/>"), on the joined output, the
\* attribute values of the opening markers included
RECURSIVE ReplaceInHtml(_)
ReplaceInHtml(html) ==
    IF html = <<>> THEN <<>>
    ELSE LET e == Head(html)
         IN  (IF e.kind = "text" THEN Text(ReplaceLineBreaks(<<e.ch>>))
              ELSE IF e.kind = "open"
                   THEN <<[e EXCEPT !.category = ReplaceLineBreaks(@),
                                    !.tag_name = ReplaceLineBreaks(@)]>>
                   ELSE <<e>>)
                 \o ReplaceInHtml(Tail(html))

\* Lines 203-267: html_content of a stored adhyaya
HtmlContent(adhyaya) ==
    LET highlight_positions == SortForNesting(adhyaya.structured_tags.highlight_positions)
        st == RenderSpans(adhyaya, highlight_positions, 1, NoParts)
        tail == IF st.current_pos < Len(adhyaya.content)
                THEN Text(Slice(adhyaya.content, st.current_pos, Len(adhyaya.content)))
                ELSE <<>>
        closing == [k \in 1..Len(st.open_tags) |-> CloseSpan]
    IN  ReplaceInHtml(st.html_parts \o tail \o closing)

\* get_rendered_adhyaya_text lines 189-279
RenderedAdhyayaTextBody(khanda_id, adhyaya_id) ==
    LET adhyaya == DbGetAdhyayaContent(khanda_id, adhyaya_id)
    IN  IF ~adhyaya.found THEN HTTPException(404)
        ELSE Return([html_content |-> HtmlContent(adhyaya),
                     adhyaya_info |-> [khanda_id |-> adhyaya.khanda_id,
                                       adhyaya_id |-> adhyaya.adhyaya_id]])

\* search_tags lines 62-125. The listing of the matching tags (db.search_tags,
\* db.count_search_results) is left out of the body: filters only.
SearchTagsBody(khanda_id, adhyaya_id) ==
    IF adhyaya_id # None /\ khanda_id = None THEN HTTPException(400)
    ELSE Return([filters |-> [khanda_id |-> khanda_id, adhyaya_id |-> adhyaya_id]])

----------------------------------------------------------------------------
(* SpecRoutes: read requests on a store that holds at most one adhyaya *)

StoredPath == <<"1", "_", "a", "/", "1", ".", "t", "x", "t">>

\* The store before the first rebuild, or once insert_adhyaya has stored the
\* first document of a rebuild (indexer.py line 179)
InitRoutes ==
    /\ \/ db_adhyayas = {}
       \/ \E text \in StoredTexts :
              db_adhyayas = {AdhyayaRecord(1, 1, StoredPath, ParseAdhyaya(text))}
    /\ db_tags = {}
    /\ db_khandas = {}
    /\ db_statistics = {}
    /\ corpus = {}
    /\ runs = <<>>
    /\ error_log = {}
    /\ pending = {}
    /\ response = [op |-> "none"]
    /\ instance = 0
    /\ instances = <<>>
    /\ callers = <<>>
    /\ db_collections = {}
    /\ db_indices = {}
    /\ ClassifierIdle
    /\ TagIdle
    /\ AdhyayaIdle

routeOtherVars == <<classifierVars, tagVars, adhyayaVars, indexerVars, singletonVars>>

\* GET /api/content/adhyaya/{khanda_id}/{adhyaya_id}
GetAdhyayaContent(khanda_id, adhyaya_id) ==
    /\ response' = Respond("adhyaya_content",
                           [khanda_id |-> khanda_id, adhyaya_id |-> adhyaya_id],
                           ExceptException(AdhyayaContentBody(khanda_id, adhyaya_id)))
    /\ UNCHANGED routeOtherVars

\* GET /api/content/tag/{khanda_id}/{adhyaya_id}/{tag_name}
GetTagInAdhyaya(khanda_id, adhyaya_id, tag_name) ==
    /\ response' = Respond("tag_in_adhyaya",
                           [khanda_id |-> khanda_id, adhyaya_id |-> adhyaya_id,
                            tag_name |-> tag_name],
                           ExceptException(TagInAdhyayaBody(khanda_id, adhyaya_id, tag_name)))
    /\ UNCHANGED routeOtherVars

\* GET /api/content/rendered-text/{khanda_id}/{adhyaya_id}
GetRenderedAdhyayaText(khanda_id, adhyaya_id) ==
    /\ response' = Respond("rendered_text",
                           [khanda_id |-> khanda_id, adhyaya_id |-> adhyaya_id],
                           ExceptException(RenderedAdhyayaTextBody(khanda_id, adhyaya_id)))
    /\ UNCHANGED routeOtherVars

\* GET /api/search/tags?khanda_id=&adhyaya_id=
SearchTags(khanda_id, adhyaya_id) ==
    /\ response' = Respond("search_tags",
                           [khanda_id |-> khanda_id, adhyaya_id |-> adhyaya_id],
                           ExceptException(SearchTagsBody(khanda_id, adhyaya_id)))
    /\ UNCHANGED routeOtherVars

RequestedNames == {<<"a">>, <<"b">>}

NextRoutes ==
    \/ \E khanda_id, adhyaya_id \in Ids : GetAdhyayaContent(khanda_id, adhyaya_id)
    \/ \E khanda_id, adhyaya_id \in Ids : \E tag_name \in RequestedNames :
           GetTagInAdhyaya(khanda_id, adhyaya_id, tag_name)
    \/ \E khanda_id, adhyaya_id \in Ids : GetRenderedAdhyayaText(khanda_id, adhyaya_id)
    \/ \E khanda_id, adhyaya_id \in {None} \cup Ids : SearchTags(khanda_id, adhyaya_id)

SpecRoutes == InitRoutes /\ [][NextRoutes]_vars

----------------------------------------------------------------------------
(* Rendered text *)

Rendered == response.op = "rendered_text" /\ response.status = 200

\* The stored adhyaya a request was about
StoredDoc ==
    CHOOSE d \in db_adhyayas :
        d.khanda_id = response.args.khanda_id /\ d.adhyaya_id = response.args.adhyaya_id

\* The spans of a stored adhyaya: the pairs of its tags
SpansOf(d) ==
    UNION {{[tag_name |-> d.tags[i].name, start |-> d.tags[i].pairs[k][1],
             end |-> d.tags[i].pairs[k][2]] : k \in 1..Len(d.tags[i].pairs)} :
           i \in 1..Len(d.tags)}

\* No two spans share a position of the text
NonOverlapping(S) ==
    \A p, q \in S : p # q => p.end <= q.start \/ q.end <= p.start

\* The output with its boundary markers removed
RECURSIVE StripMarkers(_)
StripMarkers(html) ==
    IF html = <<>> THEN <<>>
    ELSE (IF Head(html).kind = "text" THEN <<Head(html).ch>> ELSE <<>>)
             \o StripMarkers(Tail(html))

\* C23: for a stored text, line breaks included, whose spans do not overlap,
\* the rendered output with the opening and closing boundary markers removed
\* is the original text.
C23_RoundTrip ==
    (Rendered /\ NonOverlapping(SpansOf(StoredDoc)))
        => StripMarkers(response.body.html_content) = StoredDoc.content

\* Position of a span in the order (start ascending, end descending)
Rank(p, S) ==
    1 + Cardinality({q \in S : \/ q.start < p.start
                               \/ q.start = p.start /\ q.end > p.end})

Marks(html, kind) == {j \in 1..Len(html) : html[j].kind = kind}

\* C24: the rendered output has exactly one opening boundary marker per span;
\* the marker of the span at position k of the order (start ascending, end
\* descending) is the k-th one (id k - 1), and the text emitted before it is
\* the text of the document up to the span's start offset (line breaks as
\* rendered); the closing markers, as many as the spans, are the last
\* elements of the output, after the whole text, so nothing follows a closing
\* marker but closing markers and no span is closed at its own end offset.
C24_RendererStructure ==
    Rendered =>
        LET html == response.body.html_content
            text == StoredDoc.content
            S == SpansOf(StoredDoc)
            n == Cardinality(S)
        IN  /\ Cardinality(Marks(html, "open")) = n
            /\ \A p \in S :
                   \E j \in Marks(html, "open") :
                       /\ html[j].id = Rank(p, S) - 1
                       /\ Cardinality({i \in Marks(html, "open") : i < j}) = Rank(p, S) - 1
                       /\ html[j].tag_name = ReplaceLineBreaks(p.tag_name)
                       /\ StripMarkers(SubSeq(html, 1, j - 1))
                              = ReplaceLineBreaks(Slice(text, 0, p.start))
            /\ Marks(html, "close") = (Len(html) - n + 1)..Len(html)
            /\ StripMarkers(SubSeq(html, 1, Len(html) - n)) = ReplaceLineBreaks(text)
            /\ \A p \in S : p.end < Len(text)

\* Two spans and text after the start of the last span
C24_Witness ==
    /\ Rendered
    /\ Cardinality(SpansOf(StoredDoc)) = 2
    /\ \E j \in 1..Len(response.body.html_content) :
           /\ response.body.html_content[j].kind = "text"
           /\ \A i \in Marks(response.body.html_content, "open") : i < j

----------------------------------------------------------------------------
(* Error outcomes *)

Stored(khanda_id, adhyaya_id) ==
    \E d \in db_adhyayas : d.khanda_id = khanda_id /\ d.adhyaya_id = adhyaya_id

\* C28: a request for the content, a tag or the rendered text of an adhyaya
\* that is not stored, or for a tag name the stored adhyaya does not have, has
\* outcome 404, and a search that gives adhyaya_id without khanda_id has
\* outcome 400.
C28_ErrorStatusReachesCaller ==
    /\ (/\ response.op \in {"adhyaya_content", "tag_in_adhyaya", "rendered_text"}
        /\ ~Stored(response.args.khanda_id, response.args.adhyaya_id))
           => response.status = 404
    /\ (/\ response.op = "tag_in_adhyaya"
        /\ Stored(response.args.khanda_id, response.args.adhyaya_id)
        /\ FindTagByName(StoredDoc.tags, response.args.tag_name) = 0)
           => response.status = 404
    /\ (/\ response.op = "search_tags"
        /\ response.args.adhyaya_id # None
        /\ response.args.khanda_id = None)
           => response.status = 400

----------------------------------------------------------------------------
(* SpecSingleton: coroutines calling Database.get_instance *)

MaxCallers == 2
CallerIds == 1..MaxCallers

\* The collections initialize() creates, in the order of lines 38-52, and the
\* indices of lines 56-62
CollectionNames == <<"tags", "adhyayas", "khandas", "statistics">>
IndexNames ==
    <<"tags.name", "tags.main_topics", "adhyayas.khanda_id_adhyaya_id", "adhyayas.khanda_id">>

\* A coroutine that has not called get_instance: self is the Database it
\* initializes, step the collection or index it is at, result what it was
\* returned
NewCaller == [pc |-> "idle", self |-> 0, collections |-> {}, step |-> 0, result |-> 0]

\* The MongoDB database may hold any of the collections; no Database object
\* exists (_instance = None)
InitSingleton ==
    /\ instance = 0
    /\ instances = <<>>
    /\ callers = [id \in CallerIds |-> NewCaller]
    /\ db_collections \in SUBSET {CollectionNames[k] : k \in 1..Len(CollectionNames)}
    /\ db_indices = {}
    /\ response = [op |-> "none"]
    /\ ClassifierIdle
    /\ TagIdle
    /\ AdhyayaIdle
    /\ IndexerIdle

singletonOtherVars == <<classifierVars, tagVars, adhyayaVars, indexerVars, routeVars>>

\* Lines 38-52: the first collection from position k on that was not listed
RECURSIVE NextMissing(_, _)
NextMissing(collections, k) ==
    IF k > Len(CollectionNames) THEN k
    ELSE IF CollectionNames[k] \in collections THEN NextMissing(collections, k + 1)
         ELSE k

\* The await the initializing coroutine reaches after the collections from
\* position k on are dealt with
AfterCollections(c, k) ==
    LET m == NextMissing(c.collections, k)
    IN  IF m <= Len(CollectionNames)
        THEN [c EXCEPT !.pc = "create_collection", !.step = m]
        ELSE [c EXCEPT !.pc = "create_index", !.step = 1]

\* get_instance lines 24-27, up to the first await. With _instance None a
\* Database is created and initialize() runs up to line 36: _client and _db
\* are set (lines 32-33) before list_collection_names is awaited. Otherwise
\* the instance is returned at once.
GetInstance(id) ==
    /\ callers[id].pc = "idle"
    /\ IF instance = 0
       THEN /\ instances' = Append(instances, [db |-> TRUE, completed |-> FALSE])
            /\ instance' = Len(instances) + 1
            /\ callers' = [callers EXCEPT ![id].pc = "list_collection_names",
                                          ![id].self = Len(instances) + 1]
       ELSE /\ callers' = [callers EXCEPT ![id].pc = "returned", ![id].result = instance]
            /\ UNCHANGED <<instance, instances>>
    /\ UNCHANGED <<db_collections, db_indices, singletonOtherVars>>

\* Line 36: collections = await self._db.list_collection_names()
ListCollectionNames(id) ==
    /\ callers[id].pc = "list_collection_names"
    /\ callers' = [callers EXCEPT
                      ![id] = AfterCollections([@ EXCEPT !.collections = db_collections], 1)]
    /\ UNCHANGED <<instance, instances, db_collections, db_indices, singletonOtherVars>>

\* Lines 38-52: await self._db.create_collection(name); it raises
\* CollectionInvalid when the collection exists by now
CreateCollection(id) ==
    /\ callers[id].pc = "create_collection"
    /\ LET collection == CollectionNames[callers[id].step]
       IN  IF collection \in db_collections
           THEN /\ callers' = [callers EXCEPT ![id].pc = "raised"]
                /\ UNCHANGED db_collections
           ELSE /\ db_collections' = db_collections \cup {collection}
                /\ callers' = [callers EXCEPT
                                  ![id] = AfterCollections(@, callers[id].step + 1)]
    /\ UNCHANGED <<instance, instances, db_indices, singletonOtherVars>>

\* Lines 56-62: the four awaited create_index calls; after the last one
\* initialize() returns (line 64) and get_instance returns cls._instance
\* (line 27)
CreateIndex(id) ==
    /\ callers[id].pc = "create_index"
    /\ db_indices' = db_indices \cup {IndexNames[callers[id].step]}
    /\ IF callers[id].step < Len(IndexNames)
       THEN /\ callers' = [callers EXCEPT ![id].step = @ + 1]
            /\ UNCHANGED instances
       ELSE /\ instances' = [instances EXCEPT ![callers[id].self].completed = TRUE]
            /\ callers' = [callers EXCEPT ![id].pc = "returned", ![id].result = instance]
    /\ UNCHANGED <<instance, db_collections, singletonOtherVars>>

NextSingleton ==
    \E id \in CallerIds :
        \/ GetInstance(id)
        \/ ListCollectionNames(id)
        \/ CreateCollection(id)
        \/ CreateIndex(id)

SpecSingleton == InitSingleton /\ [][NextSingleton]_vars

\* C30: at most one Database is ever created, and every instance returned to
\* a caller of get_instance has completed initialize() (its database handle
\* is set, its collections and indices exist).
C30_SafeSingleton ==
    /\ Len(instances) <= 1
    /\ \A id \in CallerIds :
           callers[id].pc = "returned" =>
               /\ instances[callers[id].result].db
               /\ instances[callers[id].result].completed

====
